---- MODULE Spec2Model ----
(***************************************************************************)
(* Model of the vocal-practice client: the API gateway (apiRequest), the   *)
(* file intake (FileUpload), the auth session store (AuthProvider), the    *)
(* waveform/region selector (WaveformPlayer), the Index and Record pages   *)
(* and the capture device (AudioRecorder), and the playback of the Results *)
(* page.                                                                   *)
(*                                                                         *)
(* Every component has its own variables and its own specification         *)
(* (SpecApi, SpecFileUpload, ...); a component's specification leaves the  *)
(* variables of the other components at their initial values.              *)
(* Times are counted in tenths of a second, sizes in bytes.                *)
(***************************************************************************)
EXTENDS Integers, Sequences, FiniteSets, TLC

VARIABLES
  \* apiRequest (services/api)
  api_resp,        \* the HTTP response fetch resolves with
  api_out,         \* what apiRequest did with it: pending, returned, or thrown + message
  \* FileUpload
  fu_accept,       \* prop accept
  fu_maxSize,      \* prop maxSize
  fu_isDragging,   \* state isDragging
  fu_offered,      \* the file most recently offered, and by which path
  fu_outcome,      \* what the handler did with it
  \* AuthProvider and the browser around it
  user,            \* state user (JNull when null)
  token,           \* state token (JNull when null)
  isLoading,       \* state isLoading
  lsToken,         \* localStorage entry `token`
  lsUser,          \* localStorage entry `user`
  route,           \* the route the router shows
  auth_stored,     \* storedToken and storedUser as the startup effect read them
  auth_pending,    \* requests of login / register / logout awaiting their response
  auth_outcome,    \* how the most recently settled login / register / logout ended
  net_count,       \* number of requests issued through apiRequest so far
  lsSegment,       \* localStorage entry `currentSegment`
  nav_state,       \* location.state of the current history entry
  \* WaveformPlayer (one instance, owned by the page that shows it)
  ws_host,         \* the page whose onRegionUpdate the instance calls ("none": unmounted)
  ws_state,        \* none / loading / ready
  ws_enable,       \* prop enableRegionSelect as the effect captured it
  ws_fixed,        \* prop fixedDuration as the effect captured it (0: undefined)
  ws_duration,     \* ws.getDuration() of the loaded audio
  ws_region,       \* the region of the regions plugin
  ws_seed,         \* the region as the ready handler added it
  ws_reported,     \* the arguments of the latest onRegionUpdate call
  \* Index page
  idx_selectedFile,     \* state selectedFile
  idx_audioUrl,         \* state audioUrl
  idx_selectedDuration, \* state selectedDuration (0: null)
  idx_startTime,        \* state startTime
  idx_endTime,          \* state endTime
  idx_isUploading,      \* state isUploading
  idx_request,          \* the uploadAndProcess request awaiting its response
  idx_notice,           \* the latest toast of the page
  \* Record page
  rp_mode,              \* state mode
  rp_recordedBlob,      \* state recordedBlob
  rp_uploadedFile,      \* state uploadedFile
  rp_audioUrl,          \* state audioUrl ("": null)
  rp_selectedDuration,  \* state selectedDuration
  rp_segmentStart,      \* state segmentStart
  rp_segmentEnd,        \* state segmentEnd
  rp_isAnalyzing,       \* state isAnalyzing
  rp_showLoginDialog,   \* state showLoginDialog
  rp_sub,               \* the submission awaiting a response, with what its closure holds
  rp_notice,            \* the latest toast of the page
  rp_firstInst,         \* the first AudioRecorder instance of the mounted page
  rp_segmentId,         \* segmentId as the latest render took it (0: undefined)
  \* AudioRecorder (the mounted instance) and the browser objects its instances made
  rec_mounted,          \* whether an instance is mounted
  rec_inst,             \* number of the latest instance
  rec_isRecording,      \* state isRecording
  rec_recordedBlob,     \* state recordedBlob
  rec_isPlaying,        \* state isPlaying
  rec_recordingTime,    \* state recordingTime
  rec_mediaRecorderRef, \* mediaRecorderRef.current (0: null)
  rec_timerRef,         \* timerRef.current (0: null)
  rec_audioRef,         \* audioRef.current: null, or the state of the audio element
  rec_chunks,           \* chunksRef.current of every instance
  rec_pending,          \* per instance, the startRecording calls awaiting getUserMedia
  rec_recorders,        \* every MediaRecorder made, with its stream
  rec_timers,           \* the intervals that are set
  rec_delivered,        \* the calls of onRecordingComplete so far
  rec_notice,           \* the latest toast of the recorder
  \* Results page and the audio elements it made
  res_mounted,          \* whether the page is mounted
  res_isLoading,        \* state isLoading
  res_results,          \* whether state results holds the attempt
  res_segment,          \* whether state segment holds the segment details
  res_recording,        \* whether state recording holds the recording details
  res_playingSegment,   \* state playingSegment
  res_playingRecording, \* state playingRecording
  res_segmentAudio,     \* state segmentAudio: an element of res_audios (0: null)
  res_recordingAudio,   \* state recordingAudio: an element of res_audios (0: null)
  res_audios,           \* every Audio element made: what it plays, and its state
  res_notice,           \* the latest toast of the page
  \* History and MySegments: a fetched list with a delete control per item
  lst_page,             \* which of the two pages is mounted
  lst_isLoading,        \* state isLoading
  lst_items,            \* state attempts / segments: the ids of the items shown
  lst_deleteId,         \* state deleteId / deletingId (0: null)
  lst_pending,          \* delete requests awaiting their response, with the list their closure holds
  lst_server,           \* the ids the backend still has
  lst_calls,            \* number of delete requests issued so far
  lst_notice,           \* the latest toast of the page
  \* SelectSegment page
  sel_fileId,           \* location.state.fileId (0: undefined)
  sel_audioUrl,         \* state audioUrl ("": not set)
  sel_startTime,        \* state startTime
  sel_endTime,          \* state endTime
  sel_notice            \* the latest toast of the page

apiVars  == <<api_resp, api_out>>
fuVars   == <<fu_accept, fu_maxSize, fu_isDragging, fu_offered, fu_outcome>>
authVars == <<user, token, isLoading, lsToken, lsUser, route, auth_stored, auth_pending,
              auth_outcome, net_count>>
authSession == <<user, token, isLoading, lsToken, lsUser, auth_stored, auth_pending,
                 auth_outcome, net_count>>
navVars  == <<lsSegment, nav_state>>
wsVars   == <<ws_host, ws_state, ws_enable, ws_fixed, ws_duration, ws_region, ws_seed,
              ws_reported>>
idxPage  == <<idx_selectedFile, idx_audioUrl, idx_selectedDuration, idx_startTime,
              idx_endTime, idx_isUploading>>
idxAsync == <<idx_request, idx_notice>>
idxVars  == <<idxPage, idxAsync>>
idxRest  == <<idx_selectedFile, idx_audioUrl, idx_selectedDuration, idx_isUploading,
              idx_request, idx_notice>>
rpRest   == <<rp_mode, rp_uploadedFile, rp_audioUrl, rp_selectedDuration, rp_isAnalyzing,
              rp_showLoginDialog, rp_firstInst>>
rpPage   == <<rpRest, rp_recordedBlob, rp_segmentStart, rp_segmentEnd, rp_segmentId>>
rpAsync  == <<rp_sub, rp_notice>>
rpVars   == <<rpPage, rpAsync>>
recState == <<rec_isRecording, rec_recordedBlob, rec_isPlaying, rec_recordingTime,
              rec_mediaRecorderRef, rec_timerRef, rec_audioRef>>
recVars  == <<rec_mounted, rec_inst, recState, rec_chunks, rec_pending, rec_recorders,
              rec_timers, rec_delivered, rec_notice>>
resPage  == <<res_isLoading, res_results, res_segment, res_recording, res_playingSegment,
              res_playingRecording, res_segmentAudio, res_recordingAudio>>
resVars  == <<res_mounted, resPage, res_audios, res_notice>>
lstVars  == <<lst_page, lst_isLoading, lst_items, lst_deleteId, lst_pending, lst_server,
              lst_calls, lst_notice>>
selPage  == <<sel_fileId, sel_audioUrl, sel_startTime, sel_endTime>>
selVars  == <<selPage, sel_notice>>
vars     == <<apiVars, resVars, lstVars, selVars, fuVars, authVars, navVars, wsVars, idxVars, rpVars, recVars>>

\* what the handlers of one component leave alone
exceptApi  == <<fuVars, authVars, navVars, wsVars, idxVars, rpVars, recVars, resVars, lstVars, selVars>>
exceptFu   == <<apiVars, resVars, lstVars, selVars, authVars, navVars, wsVars, idxVars, rpVars, recVars>>
exceptAuth == <<apiVars, resVars, lstVars, selVars, fuVars, navVars, wsVars, idxVars, rpVars, recVars>>
exceptWs   == <<apiVars, resVars, lstVars, selVars, fuVars, authVars, navVars, idxRest, rpRest, rpAsync, rp_recordedBlob,
                recVars>>
exceptIdx  == <<apiVars, resVars, lstVars, selVars, fuVars, rpVars, recVars>>
exceptRec  == <<apiVars, resVars, lstVars, selVars, fuVars, authVars, navVars, wsVars, idxVars, rpRest, rpAsync,
                rp_segmentStart, rp_segmentEnd>>
exceptRes  == <<apiVars, lstVars, selVars, fuVars, authSession, lsSegment, wsVars, idxVars, rpVars, recVars>>
exceptLst  == <<apiVars, resVars, selVars, fuVars, authVars, navVars, wsVars, idxVars, rpVars,
                recVars>>
exceptSel  == <<apiVars, resVars, lstVars, fuVars, authSession, lsSegment, idxVars, rpAsync>>

(***************************************************************************)
(* Bounds of the model                                                     *)
(***************************************************************************)
MaxDetail == 2     \* longest `detail` list of a validation error body
MaxCalls  == 3     \* requests issued through apiRequest in one behaviour
MaxMounts == 2     \* AudioRecorder instances mounted in one behaviour
MaxTakes  == 2     \* MediaRecorders made in one behaviour
MaxTicks  == 3     \* largest recordingTime followed
MaxAudios == 3     \* Audio elements the Results page makes in one behaviour

(***************************************************************************)
(* Values shared by the components                                         *)
(***************************************************************************)
\* a JSON field or a localStorage entry: absent, or holding a string
Absent == [t |-> "absent"]
Str(s) == [t |-> "str", v |-> s]

\* JavaScript null
JNull == [t |-> "null"]

NoOutcome == [op |-> "none", result |-> "none"]

\* no value: no region, no request, no file
None == [t |-> "none"]

Abs(x) == IF x < 0 THEN -x ELSE x
Min(x, y) == IF x <= y THEN x ELSE y

\* JSON.stringify(segmentInfo) as localStorage keeps it
SegmentText(info) == [t |-> "json", v |-> info]

\* segmentId of getSegmentInfo(): location.state if it has a segment id, else the
\* parsed mirror, else {} (0: undefined)
SegmentIdOf(st, stored) ==
  IF st # None /\ st.segmentId # 0 THEN st.segmentId
  ELSE IF stored.t = "json" THEN stored.v.segmentId
  ELSE 0

\* segmentId as a render of Record would take it now
RpRenderSeg == SegmentIdOf(nav_state, lsSegment)

(***************************************************************************)
(* The state of each component while its specification is not the one      *)
(* explored: nothing mounted, nothing stored, nothing requested            *)
(***************************************************************************)
InitApiIdle ==
  /\ api_resp = [ok |-> TRUE, status |-> 200, statusText |-> "OK", body |-> [t |-> "null"]]
  /\ api_out = [t |-> "returned", errors |-> <<>>]

InitFileUploadIdle ==
  /\ fu_accept = <<>>
  /\ fu_maxSize = 0
  /\ fu_isDragging = FALSE
  /\ fu_offered = [via |-> "none", type |-> "", size |-> 0]
  /\ fu_outcome = "none"

InitAuthIdle ==
  /\ user = JNull
  /\ token = JNull
  /\ isLoading = TRUE
  /\ lsToken = Absent
  /\ lsUser = Absent
  /\ route = "/"
  /\ auth_stored = [token |-> Absent, user |-> Absent]
  /\ auth_pending = {}
  /\ auth_outcome = NoOutcome
  /\ net_count = 0

InitNavIdle ==
  /\ lsSegment = Absent
  /\ nav_state = None

InitWsIdle ==
  /\ ws_host = "none"
  /\ ws_state = "none"
  /\ ws_enable = FALSE
  /\ ws_fixed = 0
  /\ ws_duration = 0
  /\ ws_region = None
  /\ ws_seed = None
  /\ ws_reported = None

\* the Index page as useState initialises it
InitIdxState ==
  /\ idx_selectedFile = None
  /\ idx_audioUrl = ""
  /\ idx_selectedDuration = 0
  /\ idx_startTime = 0
  /\ idx_endTime = 0
  /\ idx_isUploading = FALSE
  /\ idx_request = None
  /\ idx_notice = ""

\* the Results page as useState initialises it
InitResState ==
  /\ res_isLoading = TRUE
  /\ res_results = FALSE
  /\ res_segment = FALSE
  /\ res_recording = FALSE
  /\ res_playingSegment = FALSE
  /\ res_playingRecording = FALSE
  /\ res_segmentAudio = 0
  /\ res_recordingAudio = 0

\* the list pages before they are mounted
InitLstIdle ==
  /\ lst_page = "none"
  /\ lst_isLoading = FALSE
  /\ lst_items = {}
  /\ lst_deleteId = 0
  /\ lst_pending = <<>>
  /\ lst_server = {}
  /\ lst_calls = 0
  /\ lst_notice = ""

\* the SelectSegment page as useState initialises it: endTime is 60 s
InitSelState ==
  /\ sel_audioUrl = ""
  /\ sel_startTime = 0
  /\ sel_endTime = 600

InitSelIdle ==
  /\ sel_fileId = 0
  /\ InitSelState
  /\ sel_notice = ""

InitResIdle ==
  /\ res_mounted = FALSE
  /\ InitResState
  /\ res_audios = <<>>
  /\ res_notice = ""

\* the Record page as useState initialises it
InitRpState ==
  /\ rp_mode = "record"
  /\ rp_recordedBlob = None
  /\ rp_uploadedFile = None
  /\ rp_audioUrl = ""
  /\ rp_selectedDuration = 300
  /\ rp_segmentStart = 0
  /\ rp_segmentEnd = 300
  /\ rp_isAnalyzing = FALSE
  /\ rp_showLoginDialog = FALSE
  /\ rp_sub = None
  /\ rp_notice = ""
  /\ rp_firstInst = 0
  /\ rp_segmentId = 0

\* AudioRecorder as useState and useRef initialise it
InitRecState ==
  /\ rec_isRecording = FALSE
  /\ rec_recordedBlob = None
  /\ rec_isPlaying = FALSE
  /\ rec_recordingTime = 0
  /\ rec_mediaRecorderRef = 0
  /\ rec_timerRef = 0
  /\ rec_audioRef = "null"

InitRecIdle ==
  /\ rec_mounted = FALSE
  /\ rec_inst = 0
  /\ InitRecState
  /\ rec_chunks = [i \in 1..MaxMounts |-> <<>>]
  /\ rec_pending = [i \in 1..MaxMounts |-> 0]
  /\ rec_recorders = <<>>
  /\ rec_timers = {}
  /\ rec_delivered = <<>>
  /\ rec_notice = ""

(***************************************************************************)
(* API gateway client: apiRequest                                          *)
(***************************************************************************)

\* a JSON field that is absent or holds a string (possibly the empty string)
FieldVals(strs) == {Absent} \cup {Str(s) : s \in strs}

\* one entry of a validation-error list: {loc: [...], msg: "..."}
LocVals == {Absent, [t |-> "list", v |-> <<>>], [t |-> "list", v |-> <<"body">>],
            [t |-> "list", v |-> <<"body", "email">>]}
ErrorEntries == [loc : LocVals, msg : FieldVals({"", "invalid"})]

DetailLists == UNION {[1..n -> ErrorEntries] : n \in 0..MaxDetail}

\* detail: absent, a string, a list of entries, or some other JSON value
DetailVals == FieldVals({"", "bad credentials"})
                \cup {[t |-> "list", v |-> l] : l \in DetailLists}
                \cup {[t |-> "other"]}

\* the parsed body: no parseable JSON, JSON null, or an object
Bodies == {[t |-> "unparseable"], [t |-> "null"]}
            \cup {[t |-> "object", detail |-> d, error |-> e, message |-> m] :
                    d \in DetailVals, e \in FieldVals({"", "x"}), m \in FieldVals({"", "m"})}

Statuses == {[ok |-> TRUE,  status |-> 200, statusText |-> "OK"],
             [ok |-> FALSE, status |-> 422, statusText |-> "Unprocessable Entity"],
             [ok |-> FALSE, status |-> 500, statusText |-> ""]}

Responses == {[ok |-> s.ok, status |-> s.status, statusText |-> s.statusText, body |-> b] :
                s \in Statuses, b \in Bodies}

\* JavaScript truthiness of a string-or-absent field
Truthy(f) == f.t = "str" /\ f.v # ""

\* response.json().catch(() => null): null when the body is absent or not JSON
ParsedErrorData(resp) ==
  IF resp.body.t = "unparseable" THEN [t |-> "null"] ELSE resp.body

\* a slip in FieldOf: the first element of loc instead of the last
FieldOfFirst(entry) ==
  IF entry.loc.t = "list" /\ Len(entry.loc.v) > 0 /\ entry.loc.v[1] # ""
  THEN entry.loc.v[1] ELSE "field"

\* firstError.loc?.slice(-1)[0] || 'field'
FieldOf(entry) ==
  IF entry.loc.t = "list" /\ Len(entry.loc.v) > 0 /\ entry.loc.v[Len(entry.loc.v)] # ""
  THEN entry.loc.v[Len(entry.loc.v)] ELSE "field"

\* firstError.msg || 'Validation error'
MessageOf(entry) == IF Truthy(entry.msg) THEN entry.msg.v ELSE "Validation error"

FallbackMessage(resp) ==
  "API request failed: " \o ToString(resp.status) \o " " \o resp.statusText

\* the message of the Error thrown for a non-OK response
ErrorMessage(resp) ==
  LET errorData == ParsedErrorData(resp) IN
  IF errorData.t = "object"
  THEN IF errorData.detail.t = "str" THEN errorData.detail.v
       ELSE IF errorData.detail.t = "list" /\ Len(errorData.detail.v) > 0
            THEN FieldOf(errorData.detail.v[1]) \o ": " \o MessageOf(errorData.detail.v[1])
       ELSE IF Truthy(errorData.error) THEN errorData.error.v
       ELSE IF Truthy(errorData.message) THEN errorData.message.v
       ELSE FallbackMessage(resp)
  ELSE FallbackMessage(resp)

ApiPending == [t |-> "pending"]

\* apiRequest once fetch has resolved: throw for a non-OK response, return the body otherwise
ApiRequest ==
  /\ api_out = ApiPending
  /\ api_out' = IF ~api_resp.ok
                THEN [t |-> "thrown", errors |-> <<ErrorMessage(api_resp)>>]
                ELSE [t |-> "returned", errors |-> <<>>]
  /\ UNCHANGED <<api_resp, exceptApi>>

(***************************************************************************)
(* File intake: FileUpload                                                 *)
(***************************************************************************)
DefaultMaxSize == 52428800      \* 50 * 1024 * 1024
SmallMaxSize   == 10485760      \* a caller's own ceiling, 10 * 1024 * 1024

MaxSizeProps == {DefaultMaxSize, SmallMaxSize}

\* the accept prop: the default 'audio/*', or the list the Record page passes
AcceptProps == {<<"audio/*">>,
                <<"audio/wav", "audio/mpeg", "audio/mp3", "audio/mp4", "audio/x-m4a",
                  "audio/flac", "audio/ogg", "audio/webm">>}

\* declared MIME types a browser may report ("" when it knows none)
FileTypes == {"audio/mpeg", "audio/aac", "video/mp4", "application/pdf", ""}

FileSizes == {0, SmallMaxSize - 1, SmallMaxSize, SmallMaxSize + 1,
              DefaultMaxSize - 1, DefaultMaxSize, DefaultMaxSize + 1}

Files == [type : FileTypes, size : FileSizes]

\* String.prototype.startsWith
StartsWith(s, prefix) ==
  Len(s) >= Len(prefix) /\ SubSeq(s, 1, Len(prefix)) = prefix

\* the size check both handlers share: file.size <= maxSize
SizeAccepted(file) == file.size <= fu_maxSize

\* the type check of handleDrop: file.type.startsWith('audio/')
DropTypeAccepted(file) == StartsWith(file.type, "audio/")

\* onDragOver: setIsDragging(true)
HandleDragOver ==
  /\ fu_isDragging' = TRUE
  /\ UNCHANGED <<fu_accept, fu_maxSize, fu_offered, fu_outcome, exceptFu>>

\* onDragLeave: setIsDragging(false)
HandleDragLeave ==
  /\ fu_isDragging' = FALSE
  /\ UNCHANGED <<fu_accept, fu_maxSize, fu_offered, fu_outcome, exceptFu>>

\* handleDrop with a file in the data transfer
HandleDrop(file) ==
  /\ fu_isDragging' = FALSE
  /\ fu_offered' = [via |-> "drop", type |-> file.type, size |-> file.size]
  /\ fu_outcome' = IF DropTypeAccepted(file)
                   THEN IF SizeAccepted(file) THEN "onFileSelect" ELSE "alert"
                   ELSE "ignored"
  /\ UNCHANGED <<fu_accept, fu_maxSize, exceptFu>>

\* handleDrop with nothing in the data transfer: file is undefined
HandleDropNoFile ==
  /\ fu_isDragging
  /\ fu_isDragging' = FALSE
  /\ UNCHANGED <<fu_accept, fu_maxSize, fu_offered, fu_outcome, exceptFu>>

\* handleFileInput with a file chosen in the picker
HandleFileInput(file) ==
  /\ fu_offered' = [via |-> "input", type |-> file.type, size |-> file.size]
  /\ fu_outcome' = IF SizeAccepted(file) THEN "onFileSelect" ELSE "alert"
  /\ UNCHANGED <<fu_accept, fu_maxSize, fu_isDragging, exceptFu>>

InitFileUpload ==
  /\ fu_accept \in AcceptProps
  /\ fu_maxSize \in MaxSizeProps
  /\ fu_isDragging = FALSE
  /\ fu_offered = [via |-> "none", type |-> "", size |-> 0]
  /\ fu_outcome = "none"
  /\ InitApiIdle
  /\ InitResIdle
  /\ InitLstIdle
  /\ InitSelIdle
  /\ InitAuthIdle
  /\ InitNavIdle
  /\ InitWsIdle
  /\ InitIdxState
  /\ InitRpState
  /\ InitRecIdle

NextFileUpload ==
  \/ HandleDragOver
  \/ HandleDragLeave
  \/ \E file \in Files : HandleDrop(file)
  \/ HandleDropNoFile
  \/ \E file \in Files : HandleFileInput(file)

SpecFileUpload == InitFileUpload /\ [][NextFileUpload]_vars

InitApi == /\ api_resp \in Responses
           /\ api_out = ApiPending
           /\ InitFileUploadIdle
           /\ InitAuthIdle
           /\ InitNavIdle
           /\ InitWsIdle
           /\ InitIdxState
           /\ InitRpState
           /\ InitRecIdle
           /\ InitResIdle
           /\ InitLstIdle
           /\ InitSelIdle

NextApi == ApiRequest

SpecApi == InitApi /\ [][NextApi]_vars

(***************************************************************************)
(* Capture device: AudioRecorder                                           *)
(***************************************************************************)
\* e.data.size of the dataavailable event a stopping recorder fires
ChunkSizes == {0, 2048}

\* new Blob(chunksRef.current, { type: 'audio/webm' })
BlobOf(chunks) == [t |-> "blob", parts |-> chunks, type |-> "audio/webm"]

\* whether the instance that made recorder r is the one that is mounted
RecCurrent(i) == rec_mounted /\ i = rec_inst

RecPendingTotal == LET Sum[i \in 0..MaxMounts] == IF i = 0 THEN 0 ELSE Sum[i - 1] + rec_pending[i]
                   IN  Sum[MaxMounts]

\* the prop onRecordingComplete: on the Record page handleRecordingComplete, which
\* sets recordedBlob of the page instance that rendered the recorder
OnRecordingComplete(r, blob) ==
  /\ rec_delivered' = Append(rec_delivered, [from |-> r, blob |-> blob])
  /\ IF route = "/record" /\ rp_firstInst # 0 /\ rec_recorders[r].inst >= rp_firstInst
     THEN /\ rp_recordedBlob' = blob
          /\ rp_segmentId' = IF blob # rp_recordedBlob THEN RpRenderSeg ELSE rp_segmentId
     ELSE UNCHANGED <<rp_recordedBlob, rp_segmentId>>

\* React mounts a new AudioRecorder
RecMountOp ==
  /\ rec_mounted' = TRUE
  /\ rec_inst' = rec_inst + 1
  /\ rec_isRecording' = FALSE
  /\ rec_recordedBlob' = None
  /\ rec_isPlaying' = FALSE
  /\ rec_recordingTime' = 0
  /\ rec_mediaRecorderRef' = 0
  /\ rec_timerRef' = 0
  /\ rec_audioRef' = "null"
  /\ UNCHANGED <<rec_chunks, rec_pending, rec_recorders, rec_timers, rec_delivered, rec_notice>>

\* React unmounts the AudioRecorder: the component registers no cleanup, so its
\* recorders, streams and intervals stay as they are
RecUnmountOp ==
  /\ rec_mounted' = FALSE
  /\ rec_isRecording' = FALSE
  /\ rec_recordedBlob' = None
  /\ rec_isPlaying' = FALSE
  /\ rec_recordingTime' = 0
  /\ rec_mediaRecorderRef' = 0
  /\ rec_timerRef' = 0
  /\ rec_audioRef' = "null"
  /\ UNCHANGED <<rec_inst, rec_chunks, rec_pending, rec_recorders, rec_timers, rec_delivered,
                 rec_notice>>

\* startRecording up to `await getUserMedia`; the Start control is rendered while
\* !isRecording && !recordedBlob
RecStartRecording ==
  /\ rec_mounted
  /\ ~rec_isRecording
  /\ rec_recordedBlob = None
  /\ Len(rec_recorders) + RecPendingTotal < MaxTakes
  /\ rec_pending' = [rec_pending EXCEPT ![rec_inst] = @ + 1]
  /\ UNCHANGED <<rec_mounted, rec_inst, recState, rec_chunks, rec_recorders, rec_timers,
                 rec_delivered, rec_notice, rp_recordedBlob, rp_segmentId, exceptRec>>

\* startRecording after the await, the microphone having been granted to the call of
\* instance i: a stream, a MediaRecorder on it, start(), the one-second interval
RecStartGranted(i) ==
  /\ rec_pending[i] > 0
  /\ rec_pending' = [rec_pending EXCEPT ![i] = @ - 1]
  /\ LET r == Len(rec_recorders) + 1 IN
     /\ rec_recorders' = Append(rec_recorders, [inst |-> i, state |-> "recording", live |-> TRUE])
     /\ rec_chunks' = [rec_chunks EXCEPT ![i] = <<>>]
     /\ rec_timers' = rec_timers \cup {r}
     /\ IF RecCurrent(i)
        THEN /\ rec_mediaRecorderRef' = r
             /\ rec_isRecording' = TRUE
             /\ rec_recordingTime' = 0
             /\ rec_timerRef' = r
        ELSE UNCHANGED <<rec_mediaRecorderRef, rec_isRecording, rec_recordingTime, rec_timerRef>>
  /\ rec_notice' = "Recording started"
  /\ UNCHANGED <<rec_mounted, rec_inst, rec_recordedBlob, rec_isPlaying, rec_audioRef,
                 rec_delivered, rp_recordedBlob, rp_segmentId, exceptRec>>

\* startRecording after the await, getUserMedia having rejected: the catch block
RecStartDenied(i) ==
  /\ rec_pending[i] > 0
  /\ rec_pending' = [rec_pending EXCEPT ![i] = @ - 1]
  /\ rec_notice' = "Failed to access microphone"
  /\ UNCHANGED <<rec_mounted, rec_inst, recState, rec_chunks, rec_recorders, rec_timers,
                 rec_delivered, rp_recordedBlob, rp_segmentId, exceptRec>>

\* the interval callback of the mounted instance: setRecordingTime(prev => prev + 1)
RecTick(t) ==
  /\ t \in rec_timers
  /\ RecCurrent(rec_recorders[t].inst)
  /\ rec_recordingTime < MaxTicks
  /\ rec_recordingTime' = rec_recordingTime + 1
  /\ UNCHANGED <<rec_mounted, rec_inst, rec_isRecording, rec_recordedBlob, rec_isPlaying,
                 rec_mediaRecorderRef, rec_timerRef, rec_audioRef, rec_chunks, rec_pending,
                 rec_recorders, rec_timers, rec_delivered, rec_notice, rp_recordedBlob,
                 rp_segmentId, exceptRec>>

\* stopRecording; the Stop control is rendered while isRecording
RecStopRecording ==
  /\ rec_mounted
  /\ rec_isRecording
  /\ rec_mediaRecorderRef # 0
  /\ rec_recorders' = [rec_recorders EXCEPT ![rec_mediaRecorderRef].state = "stopping"]
  /\ rec_isRecording' = FALSE
  /\ rec_timers' = rec_timers \ {rec_timerRef}
  /\ rec_notice' = "Recording stopped"
  /\ UNCHANGED <<rec_mounted, rec_inst, rec_recordedBlob, rec_isPlaying, rec_recordingTime,
                 rec_mediaRecorderRef, rec_timerRef, rec_audioRef, rec_chunks, rec_pending,
                 rec_delivered, rp_recordedBlob, rp_segmentId, exceptRec>>

\* ondataavailable of a stopping recorder: the data gathered since start()
RecDataAvailable(r, size) ==
  /\ r \in 1..Len(rec_recorders)
  /\ rec_recorders[r].state = "stopping"
  /\ rec_recorders' = [rec_recorders EXCEPT ![r].state = "flushed"]
  /\ rec_chunks' = IF size > 0
                   THEN [rec_chunks EXCEPT ![rec_recorders[r].inst] =
                            Append(@, [from |-> r, size |-> size])]
                   ELSE rec_chunks
  /\ UNCHANGED <<rec_mounted, rec_inst, recState, rec_pending, rec_timers, rec_delivered,
                 rec_notice, rp_recordedBlob, rp_segmentId, exceptRec>>

\* onstop of a recorder: build the blob, keep it, hand it to the caller, stop the tracks
RecOnStop(r) ==
  /\ r \in 1..Len(rec_recorders)
  /\ rec_recorders[r].state = "flushed"
  /\ LET blob == BlobOf(rec_chunks[rec_recorders[r].inst]) IN
     /\ rec_recordedBlob' = IF RecCurrent(rec_recorders[r].inst) THEN blob ELSE rec_recordedBlob
     /\ OnRecordingComplete(r, blob)
  /\ rec_recorders' = [rec_recorders EXCEPT ![r].state = "inactive", ![r].live = FALSE]
  /\ UNCHANGED <<rec_mounted, rec_inst, rec_isRecording, rec_isPlaying, rec_recordingTime,
                 rec_mediaRecorderRef, rec_timerRef, rec_audioRef, rec_chunks, rec_pending,
                 rec_timers, rec_notice, exceptRec>>

\* playRecording; the control is rendered while recordedBlob && !isRecording
RecPlayRecording ==
  /\ rec_mounted
  /\ rec_recordedBlob # None
  /\ ~rec_isRecording
  /\ IF ~rec_isPlaying
     THEN rec_audioRef' = "playing" /\ rec_isPlaying' = TRUE
     ELSE IF rec_audioRef # "null"
          THEN rec_audioRef' = "paused" /\ rec_isPlaying' = FALSE
          ELSE UNCHANGED <<rec_audioRef, rec_isPlaying>>
  /\ UNCHANGED <<rec_mounted, rec_inst, rec_isRecording, rec_recordedBlob, rec_recordingTime,
                 rec_mediaRecorderRef, rec_timerRef, rec_chunks, rec_pending, rec_recorders,
                 rec_timers, rec_delivered, rec_notice, rp_recordedBlob, rp_segmentId, exceptRec>>

\* audio.onended: playback reached the end of the take
RecAudioEnded ==
  /\ rec_mounted
  /\ rec_audioRef = "playing"
  /\ rec_audioRef' = "ended"
  /\ rec_isPlaying' = FALSE
  /\ UNCHANGED <<rec_mounted, rec_inst, rec_isRecording, rec_recordedBlob, rec_recordingTime,
                 rec_mediaRecorderRef, rec_timerRef, rec_chunks, rec_pending, rec_recorders,
                 rec_timers, rec_delivered, rec_notice, rp_recordedBlob, rp_segmentId, exceptRec>>

\* resetRecording; the Re-record control is rendered while recordedBlob && !isRecording
RecResetRecording ==
  /\ rec_mounted
  /\ rec_recordedBlob # None
  /\ ~rec_isRecording
  /\ rec_recordedBlob' = None
  /\ rec_isPlaying' = FALSE
  /\ rec_recordingTime' = 0
  /\ rec_audioRef' = "null"
  /\ UNCHANGED <<rec_mounted, rec_inst, rec_isRecording, rec_mediaRecorderRef, rec_timerRef,
                 rec_chunks, rec_pending, rec_recorders, rec_timers, rec_delivered, rec_notice,
                 rp_recordedBlob, rp_segmentId, exceptRec>>

\* the host takes the recorder off the page
RecUnmount ==
  /\ rec_mounted
  /\ RecUnmountOp
  /\ UNCHANGED <<rp_recordedBlob, rp_segmentId, exceptRec>>

\* the host puts a recorder on the page again
RecMount ==
  /\ ~rec_mounted
  /\ rec_inst < MaxMounts
  /\ RecMountOp
  /\ UNCHANGED <<rp_recordedBlob, rp_segmentId, exceptRec>>

InitRecorder ==
  /\ rec_mounted = TRUE
  /\ rec_inst = 1
  /\ InitRecState
  /\ rec_chunks = [i \in 1..MaxMounts |-> <<>>]
  /\ rec_pending = [i \in 1..MaxMounts |-> 0]
  /\ rec_recorders = <<>>
  /\ rec_timers = {}
  /\ rec_delivered = <<>>
  /\ rec_notice = ""
  /\ InitApiIdle
  /\ InitResIdle
  /\ InitLstIdle
  /\ InitSelIdle
  /\ InitFileUploadIdle
  /\ InitAuthIdle
  /\ InitNavIdle
  /\ InitWsIdle
  /\ InitIdxState
  /\ InitRpState

\* what the browser does on its own: settle getUserMedia, and deliver the events of
\* a stopping recorder
RecPermission ==
  \/ \E i \in 1..MaxMounts : RecStartGranted(i)
  \/ \E i \in 1..MaxMounts : RecStartDenied(i)

RecStopEvents(r) ==
  \/ \E size \in ChunkSizes : RecDataAvailable(r, size)
  \/ RecOnStop(r)

NextRecorder ==
  \/ RecStartRecording
  \/ \E i \in 1..MaxMounts : RecStartGranted(i)
  \/ \E i \in 1..MaxMounts : RecStartDenied(i)
  \/ \E t \in 1..MaxTakes : RecTick(t)
  \/ RecStopRecording
  \/ \E r \in 1..MaxTakes, size \in ChunkSizes : RecDataAvailable(r, size)
  \/ \E r \in 1..MaxTakes : RecOnStop(r)
  \/ RecPlayRecording
  \/ RecAudioEnded
  \/ RecResetRecording
  \/ RecUnmount
  \/ RecMount

SpecRecorder ==
  /\ InitRecorder
  /\ [][NextRecorder]_vars
  /\ WF_vars(RecPermission)
  /\ \A r \in 1..MaxTakes : WF_vars(RecStopEvents(r))

(***************************************************************************)
(* Waveform/region selector: WaveformPlayer                                *)
(***************************************************************************)
\* the region length the ready handler asks for when no fixed duration is given: 60 s
DefaultRegionCap == 600

\* lengths (tenths of a second) of the audio files a user may load
AudioDurations == {280, 299, 450, 700}

\* the values a host passes as fixedDuration: undefined, 15, 30 or 60 seconds
FixedDurations == {0, 150, 300, 600}

\* where a drag may leave the start of the region, and where a resize may leave an edge
DragPositions == {0, 100, 300}

Region(start, end, resize) == [t |-> "region", start |-> start, end |-> end, resize |-> resize]
Pair(start, end) == [t |-> "pair", start |-> start, end |-> end]

\* onRegionUpdate?.(start, end): the host's callback
\*   Index: handleRegionUpdate sets startTime and endTime
\*   Record: handleRegionUpdate sets segmentStart and segmentEnd
OnRegionUpdate(start, end) ==
  /\ ws_reported' = Pair(start, end)
  /\ IF ws_host = "index"
     THEN idx_startTime' = start /\ idx_endTime' = end
     ELSE UNCHANGED <<idx_startTime, idx_endTime>>
  /\ IF ws_host = "record"
     THEN /\ rp_segmentStart' = start
          /\ rp_segmentEnd' = end
          /\ rp_segmentId' = IF <<start, end>> # <<rp_segmentStart, rp_segmentEnd>>
                             THEN RpRenderSeg ELSE rp_segmentId
     ELSE UNCHANGED <<rp_segmentStart, rp_segmentEnd, rp_segmentId>>

\* the effect of WaveformPlayer: WaveSurfer.create, the regions plugin, ws.load(audioUrl)
WsCreate(host, enable, fixed, duration) ==
  /\ ws_host' = host
  /\ ws_state' = "loading"
  /\ ws_enable' = enable
  /\ ws_fixed' = fixed
  /\ ws_duration' = duration
  /\ ws_region' = None
  /\ ws_seed' = None

\* the cleanup of the effect: ws.destroy()
WsDestroy ==
  /\ ws_host' = "none"
  /\ ws_state' = "none"
  /\ ws_enable' = FALSE
  /\ ws_fixed' = 0
  /\ ws_duration' = 0
  /\ ws_region' = None
  /\ ws_seed' = None

\* a slip in SeedEnd: the region is not cut to the length of the audio
SeedEndUnclamped(fixed, duration) ==
  IF fixed # 0 THEN fixed ELSE Min(DefaultRegionCap, duration)

\* defaultEnd of the ready handler
SeedEnd(fixed, duration) ==
  LET regionDuration == IF fixed # 0 THEN fixed ELSE Min(DefaultRegionCap, duration)
  IN  Min(regionDuration, duration)

\* a slip in SeedResize: every region can be resized
SeedResizeAlways(fixed) == TRUE

\* resize: fixedDuration ? false : true
SeedResize(fixed) == fixed = 0

\* ws.on('ready'): add the default region and report it
WsReady ==
  /\ ws_state = "loading"
  /\ ws_state' = "ready"
  /\ IF ws_enable
     THEN LET defaultEnd == SeedEnd(ws_fixed, ws_duration) IN
          /\ ws_region' = Region(0, defaultEnd, SeedResize(ws_fixed))
          /\ ws_seed' = Pair(0, defaultEnd)
          /\ OnRegionUpdate(0, defaultEnd)
     ELSE UNCHANGED <<ws_region, ws_seed, ws_reported, idx_startTime, idx_endTime,
                      rp_segmentStart, rp_segmentEnd, rp_segmentId>>
  /\ UNCHANGED <<ws_host, ws_enable, ws_fixed, ws_duration, exceptWs>>

\* the user drags the region and lets go: the regions plugin moves it as a whole,
\* keeps it inside the audio, and emits region-updated
WsDrag(newStart) ==
  /\ ws_state = "ready"
  /\ ws_region # None
  /\ LET len == ws_region.end - ws_region.start IN
     /\ newStart >= 0
     /\ newStart + len <= ws_duration
     /\ ws_region' = Region(newStart, newStart + len, ws_region.resize)
     /\ OnRegionUpdate(newStart, newStart + len)
  /\ UNCHANGED <<ws_host, ws_state, ws_enable, ws_fixed, ws_duration, ws_seed, exceptWs>>

\* the user drags one edge of a resizable region and lets go
WsResize(newStart, newEnd) ==
  /\ ws_state = "ready"
  /\ ws_region # None
  /\ ws_region.resize
  /\ newStart = ws_region.start \/ newEnd = ws_region.end
  /\ 0 <= newStart /\ newStart <= newEnd /\ newEnd <= ws_duration
  /\ ws_region' = Region(newStart, newEnd, ws_region.resize)
  /\ OnRegionUpdate(newStart, newEnd)
  /\ UNCHANGED <<ws_host, ws_state, ws_enable, ws_fixed, ws_duration, ws_seed, exceptWs>>

\* a host that only keeps what it is told renders the player with other props:
\* the effect's cleanup destroys the instance and the effect creates a new one
WsPropsChange(enable, fixed, duration) ==
  /\ ws_host = "harness"
  /\ <<enable, fixed, duration>> # <<ws_enable, ws_fixed, ws_duration>>
  /\ WsCreate("harness", enable, fixed, duration)
  /\ UNCHANGED <<ws_reported, idx_startTime, idx_endTime, rp_segmentStart, rp_segmentEnd,
                 rp_segmentId, exceptWs>>

RegionEdges == DragPositions \cup AudioDurations

InitWaveform ==
  /\ ws_host = "harness"
  /\ ws_state = "loading"
  /\ ws_enable \in BOOLEAN
  /\ ws_fixed \in FixedDurations
  /\ ws_duration \in AudioDurations
  /\ ws_region = None
  /\ ws_seed = None
  /\ ws_reported = None
  /\ InitApiIdle
  /\ InitResIdle
  /\ InitLstIdle
  /\ InitSelIdle
  /\ InitFileUploadIdle
  /\ InitAuthIdle
  /\ InitNavIdle
  /\ InitIdxState
  /\ InitRpState
  /\ InitRecIdle

NextWaveform ==
  \/ WsReady
  \/ \E newStart \in DragPositions : WsDrag(newStart)
  \/ \E newStart \in RegionEdges, newEnd \in RegionEdges : WsResize(newStart, newEnd)
  \/ \E enable \in BOOLEAN, fixed \in FixedDurations, duration \in AudioDurations :
        WsPropsChange(enable, fixed, duration)

SpecWaveform == InitWaveform /\ [][NextWaveform]_vars

(***************************************************************************)
(* Router: what a navigation unmounts and mounts                           *)
(***************************************************************************)
\* the WaveformPlayer of a page goes with the page
WsLeave(host) ==
  IF ws_host = host
  THEN WsDestroy /\ UNCHANGED ws_reported
  ELSE UNCHANGED wsVars

\* Index is unmounted: its state is gone, a request it awaits is not
IdxUnmountOp ==
  /\ idx_selectedFile' = None
  /\ idx_audioUrl' = ""
  /\ idx_selectedDuration' = 0
  /\ idx_startTime' = 0
  /\ idx_endTime' = 0
  /\ idx_isUploading' = FALSE

\* Record is unmounted: its state is gone, a submission it awaits is not
RpUnmountOp ==
  /\ rp_mode' = "record"
  /\ rp_recordedBlob' = None
  /\ rp_uploadedFile' = None
  /\ rp_audioUrl' = ""
  /\ rp_selectedDuration' = 300
  /\ rp_segmentStart' = 0
  /\ rp_segmentEnd' = 300
  /\ rp_isAnalyzing' = FALSE
  /\ rp_showLoginDialog' = FALSE
  /\ rp_firstInst' = 0
  /\ rp_segmentId' = 0

\* Record is mounted with location.state = st: useState, getSegmentInfo, and the
\* AudioRecorder of record mode
RpMountOp(st, stored) ==
  /\ rp_mode' = "record"
  /\ rp_recordedBlob' = None
  /\ rp_uploadedFile' = None
  /\ rp_audioUrl' = ""
  /\ rp_selectedDuration' = 300
  /\ rp_segmentStart' = 0
  /\ rp_segmentEnd' = 300
  /\ rp_isAnalyzing' = FALSE
  /\ rp_showLoginDialog' = FALSE
  /\ rp_firstInst' = rec_inst + 1
  /\ rp_segmentId' = SegmentIdOf(st, stored)
  /\ RecMountOp

\* the cleanup of Record's effect on [isAnalyzing], run when the page is unmounted:
\* what it leaves of the mirror `stored`
RpCleanupStore(stored) == IF rp_isAnalyzing THEN stored ELSE Absent

\* a slip in StoreAfterLeaving: no cleanup on the way out
StoreAfterLeavingKept(stored) == stored

\* the mirror after a navigation away from the current route
StoreAfterLeaving(stored) == IF route = "/record" THEN RpCleanupStore(stored) ELSE stored

\* navigate(to, { state: st }): every variable of the pages but the mirror, the toasts
\* and the requests awaited; `stored` is the mirror as the mounted page will read it
NavigateOp(to, st, stored) ==
  /\ route' = to
  /\ nav_state' = st
  /\ CASE to = route ->
            UNCHANGED <<wsVars, idxPage, rpPage, recVars>>
       [] to # route /\ route = "/record" ->
            /\ RpUnmountOp
            /\ IF rec_mounted THEN RecUnmountOp ELSE UNCHANGED recVars
            /\ WsLeave("record")
            /\ UNCHANGED idxPage
       [] to # route /\ route # "/record" /\ to = "/record" ->
            /\ RpMountOp(st, stored)
            /\ IF route = "/"
               THEN IdxUnmountOp /\ WsLeave("index")
               ELSE UNCHANGED <<idxPage, wsVars>>
       [] to # route /\ route = "/" /\ to # "/record" ->
            /\ IdxUnmountOp
            /\ WsLeave("index")
            /\ UNCHANGED <<rpPage, recVars>>
       [] OTHER ->
            UNCHANGED <<wsVars, idxPage, rpPage, recVars>>

(***************************************************************************)
(* Auth session store: AuthProvider                                        *)
(***************************************************************************)
\* user profiles the backend may return
Users == {[t |-> "user", id |-> 1, username |-> "ann"],
          [t |-> "user", id |-> 2, username |-> "bob"]}

Tokens == {"tokA", "tokB"}

\* JSON.stringify of a user profile
JsonStringify(u) ==
  "{\"id\":\"" \o ToString(u.id) \o "\",\"username\":\"" \o u.username \o "\"}"

\* texts JSON.parse accepts, and what it returns for them; any other text throws
JsonParses(text) == text = "null" \/ \E u \in Users : JsonStringify(u) = text

JsonParse(text) ==
  IF text = "null" THEN JNull ELSE CHOOSE u \in Users : JsonStringify(u) = text

\* what localStorage may hold under `token` and `user` when the app starts
StoredTokens == {Absent, Str("")} \cup {Str(tk) : tk \in Tokens}
StoredUsers  == {Absent, Str(""), Str("null"), Str("{\"id\":\"1\",\"usern")}
                  \cup {Str(JsonStringify(u)) : u \in Users}

Routes == {"/", "/login", "/register"}

\* a slip in RehydrateEffect: the catch branch removes only the `user` entry
RehydrateEffectKeepsToken ==
  /\ isLoading
  /\ auth_stored' = [token |-> lsToken, user |-> lsUser]
  /\ IF Truthy(lsToken) /\ Truthy(lsUser)
     THEN IF JsonParses(lsUser.v)
          THEN /\ user' = JsonParse(lsUser.v)
               /\ token' = Str(lsToken.v)
               /\ UNCHANGED <<lsToken, lsUser>>
          ELSE /\ lsUser' = Absent
               /\ UNCHANGED <<user, token, lsToken>>
     ELSE UNCHANGED <<user, token, lsToken, lsUser>>
  /\ isLoading' = FALSE
  /\ UNCHANGED <<route, auth_pending, auth_outcome, net_count, exceptAuth>>

\* the startup effect of AuthProvider
RehydrateEffect ==
  /\ isLoading
  /\ auth_stored' = [token |-> lsToken, user |-> lsUser]
  /\ IF Truthy(lsToken) /\ Truthy(lsUser)
     THEN IF JsonParses(lsUser.v)
          THEN /\ user' = JsonParse(lsUser.v)
               /\ token' = Str(lsToken.v)
               /\ UNCHANGED <<lsToken, lsUser>>
          ELSE /\ lsUser' = Absent
               /\ lsToken' = Absent
               /\ UNCHANGED <<user, token>>
     ELSE UNCHANGED <<user, token, lsToken, lsUser>>
  /\ isLoading' = FALSE
  /\ UNCHANGED <<route, auth_pending, auth_outcome, net_count, exceptAuth>>

\* apiRequest up to its await: reads the stored token for the Authorization header
\* and hands the request to fetch
\* a slip in AuthRequest: the request is built when the stored token is already gone
AuthRequestAfterRemoval(op) == [op |-> op, bearer |-> Absent]

AuthRequest(op) == [op |-> op, bearer |-> lsToken]

\* login(email, password) up to `await authAPI.login`
LoginCall ==
  /\ ~isLoading
  /\ route = "/login"
  /\ net_count < MaxCalls
  /\ \A r \in auth_pending : r.op # "login"
  /\ auth_pending' = auth_pending \cup {AuthRequest("login")}
  /\ net_count' = net_count + 1
  /\ UNCHANGED <<user, token, isLoading, lsToken, lsUser, route, auth_stored,
                 auth_outcome, exceptAuth>>

\* register(email, username, password) up to `await authAPI.register`
RegisterCall ==
  /\ ~isLoading
  /\ route = "/register"
  /\ net_count < MaxCalls
  /\ \A r \in auth_pending : r.op # "register"
  /\ auth_pending' = auth_pending \cup {AuthRequest("register")}
  /\ net_count' = net_count + 1
  /\ UNCHANGED <<user, token, isLoading, lsToken, lsUser, route, auth_stored,
                 auth_outcome, exceptAuth>>

\* what a login or register response may carry: data.access_token and data.user,
\* either of which may be missing
ResponseTokens == {Absent} \cup {Str(tk) : tk \in Tokens}
ResponseUsers  == {JNull} \cup Users

\* a slip in ValidSession: only data.user is looked at
ValidSessionUserOnly(tk, u) == u # JNull

\* the negation of `!data || !data.access_token || !data.user`
ValidSession(tk, u) == Truthy(tk) /\ u # JNull

\* login / register after the await, the request having succeeded with `data`
SessionSettleOk(req, tk, u) ==
  /\ req \in auth_pending
  /\ req.op \in {"login", "register"}
  /\ auth_pending' = auth_pending \ {req}
  /\ IF ValidSession(tk, u)
     THEN /\ token' = tk
          /\ lsToken' = tk
          /\ user' = u
          /\ lsUser' = Str(JsonStringify(u))
          /\ NavigateOp("/", None, lsSegment)
          /\ lsSegment' = StoreAfterLeaving(lsSegment)
          /\ auth_outcome' = [op |-> req.op, result |-> "ok"]
     ELSE /\ auth_outcome' = [op |-> req.op, result |-> "rethrown"]
          /\ UNCHANGED <<token, lsToken, user, lsUser, route, navVars, wsVars, idxPage,
                         rpPage, recVars>>
  /\ UNCHANGED <<isLoading, auth_stored, net_count, apiVars, resVars, lstVars, selVars, fuVars, idxAsync, rpAsync>>

\* login / register after the await, the request having failed: toast and rethrow
SessionSettleError(req) ==
  /\ req \in auth_pending
  /\ req.op \in {"login", "register"}
  /\ auth_pending' = auth_pending \ {req}
  /\ auth_outcome' = [op |-> req.op, result |-> "rethrown"]
  /\ UNCHANGED <<user, token, isLoading, lsToken, lsUser, route, auth_stored,
                 net_count, exceptAuth>>

\* logout() up to `await authAPI.logout`; the Navbar offers it while user is set
LogoutCall ==
  /\ ~isLoading
  /\ user # JNull
  /\ net_count < MaxCalls
  /\ \A r \in auth_pending : r.op # "logout"
  /\ auth_pending' = auth_pending \cup {AuthRequest("logout")}
  /\ net_count' = net_count + 1
  /\ UNCHANGED <<user, token, isLoading, lsToken, lsUser, route, auth_stored,
                 auth_outcome, exceptAuth>>

\* logout() after the await, whether the request succeeded or failed: the finally block
LogoutSettle(req) ==
  /\ req \in auth_pending
  /\ req.op = "logout"
  /\ auth_pending' = auth_pending \ {req}
  /\ token' = JNull
  /\ user' = JNull
  /\ lsToken' = Absent
  /\ lsUser' = Absent
  /\ NavigateOp("/login", None, lsSegment)
  /\ lsSegment' = StoreAfterLeaving(lsSegment)
  /\ auth_outcome' = [op |-> "logout", result |-> "ok"]
  /\ UNCHANGED <<isLoading, auth_stored, net_count, apiVars, resVars, lstVars, selVars, fuVars, idxAsync, rpAsync>>

\* a link of the Navbar or the browser's history: another route, no reload
FollowLink(to) ==
  /\ ~isLoading
  /\ to # route
  /\ to # "/record"
  /\ NavigateOp(to, None, lsSegment)
  /\ lsSegment' = StoreAfterLeaving(lsSegment)
  /\ UNCHANGED <<user, token, isLoading, lsToken, lsUser, auth_stored, auth_pending,
                 auth_outcome, net_count, apiVars, resVars, lstVars, selVars, fuVars, idxAsync, rpAsync>>

\* the user reloads the page: memory is lost, localStorage is kept
Reload ==
  /\ ~isLoading
  /\ user' = JNull
  /\ token' = JNull
  /\ isLoading' = TRUE
  /\ auth_pending' = {}
  /\ auth_outcome' = NoOutcome
  /\ UNCHANGED <<lsToken, lsUser, route, auth_stored, net_count, exceptAuth>>

InitAuth ==
  /\ user = JNull
  /\ token = JNull
  /\ isLoading = TRUE
  /\ lsToken \in StoredTokens
  /\ lsUser \in StoredUsers
  /\ route \in Routes
  /\ auth_stored = [token |-> Absent, user |-> Absent]
  /\ auth_pending = {}
  /\ auth_outcome = NoOutcome
  /\ net_count = 0
  /\ InitApiIdle
  /\ InitResIdle
  /\ InitLstIdle
  /\ InitSelIdle
  /\ InitFileUploadIdle
  /\ InitNavIdle
  /\ InitWsIdle
  /\ InitIdxState
  /\ InitRpState
  /\ InitRecIdle

NextAuth ==
  \/ RehydrateEffect
  \/ LoginCall
  \/ RegisterCall
  \/ \E req \in auth_pending, tk \in ResponseTokens, u \in ResponseUsers :
        SessionSettleOk(req, tk, u)
  \/ \E req \in auth_pending : SessionSettleError(req)
  \/ LogoutCall
  \/ \E req \in auth_pending : LogoutSettle(req)
  \/ \E to \in Routes : FollowLink(to)
  \/ Reload

\* React runs the mount effect of a mounted provider
SpecAuth == InitAuth /\ [][NextAuth]_vars /\ WF_vars(RehydrateEffect)

(***************************************************************************)
(* Index page                                                              *)
(***************************************************************************)
\* the audio files a user may pick, each with the length of its audio
Songs == {[name |-> "song" \o ToString(d), duration |-> d] : d \in AudioDurations}

\* the duration buttons: 15, 30 and 60 seconds
DurationChoices == {150, 300, 600}

\* ids the backend gives to segments
SegmentIds == {1, 2}

\* const tolerance = 0.1, in tenths of a second
Tolerance == 1

\* Number.prototype.toFixed(1) of a non-negative time
ToFixed1(x) == ToString(x \div 10) \o "." \o ToString(x % 10)

\* a whole number of seconds as a template literal prints it
Seconds(x) == ToString(x \div 10)

\* a slip in DurationValid: the tolerance itself is refused
DurationValidStrict(start, end, target) ==
  Abs(Abs(end - start) - target) < Tolerance

\* isDurationValid of handleUpload
DurationValid(start, end, target) ==
  LET actualDuration == Abs(end - start)
  IN  Abs(actualDuration - target) <= Tolerance

DurationNotice(start, end, target) ==
  "Please ensure the segment is exactly " \o Seconds(target) \o " seconds (current: "
     \o ToFixed1(Abs(end - start)) \o "s)"

\* whether the page renders the WaveformPlayer: selectedDuration && audioUrl
IdxShowsPlayer == idx_selectedFile # None /\ idx_selectedDuration # 0 /\ idx_audioUrl # ""

\* handleFileSelect: a file accepted by FileUpload
IdxHandleFileSelect(file) ==
  /\ route = "/"
  /\ idx_selectedFile' = file
  /\ idx_audioUrl' = "blob:" \o file.name
  /\ idx_selectedDuration' = 0
  /\ idx_startTime' = 0
  /\ idx_endTime' = 0
  /\ idx_notice' = "File selected! Now choose a segment duration."
  /\ WsDestroy
  /\ UNCHANGED <<idx_isUploading, idx_request, ws_reported, authVars, navVars, exceptIdx>>

\* handleDurationSelect, and the player the next render mounts or re-creates
IdxHandleDurationSelect(duration) ==
  /\ route = "/"
  /\ idx_selectedFile # None
  /\ idx_selectedDuration' = duration
  /\ idx_endTime' = duration
  /\ IF duration # idx_selectedDuration
     THEN WsCreate("index", TRUE, duration, idx_selectedFile.duration)
     ELSE UNCHANGED <<ws_host, ws_state, ws_enable, ws_fixed, ws_duration, ws_region, ws_seed>>
  /\ UNCHANGED <<idx_selectedFile, idx_audioUrl, idx_startTime, idx_isUploading, idx_request,
                 idx_notice, ws_reported, authVars, navVars, exceptIdx>>

\* disabled={isUploading} of the upload button
IdxUploadDisabled == idx_isUploading

\* handleUpload up to `await uploadAPI.uploadAndProcess`; the button is rendered with the
\* player and disabled while isUploading
IdxHandleUpload ==
  /\ route = "/"
  /\ IdxShowsPlayer
  /\ ~IdxUploadDisabled
  /\ net_count < MaxCalls
  /\ IF DurationValid(idx_startTime, idx_endTime, idx_selectedDuration)
     THEN /\ idx_isUploading' = TRUE
          /\ idx_request' = [t |-> "upload", file |-> idx_selectedFile,
                             start_time |-> idx_startTime, end_time |-> idx_endTime,
                             bearer |-> lsToken]
          /\ net_count' = net_count + 1
          /\ UNCHANGED idx_notice
     ELSE /\ idx_notice' = DurationNotice(idx_startTime, idx_endTime, idx_selectedDuration)
          /\ UNCHANGED <<idx_isUploading, idx_request, net_count>>
  /\ UNCHANGED <<idx_selectedFile, idx_audioUrl, idx_selectedDuration, idx_startTime,
                 idx_endTime, user, token, isLoading, lsToken, lsUser, route, auth_stored,
                 auth_pending, auth_outcome, navVars, wsVars, exceptIdx>>

\* handleUpload after the await, the request having succeeded with result.id = id:
\* the mirror is written, the router goes to /record and the page is unmounted
IdxUploadSettleOk(id) ==
  /\ idx_request # None
  /\ route # "/record"
  /\ rec_inst < MaxMounts
  /\ LET segmentInfo == [segmentId |-> id, fileName |-> idx_request.file.name,
                         startTime |-> idx_request.start_time,
                         endTime |-> idx_request.end_time] IN
     /\ lsSegment' = SegmentText(segmentInfo)
     /\ idx_notice' = "Song uploaded and processed!"
     /\ idx_request' = None
     /\ route' = "/record"
     /\ nav_state' = segmentInfo
     /\ RpMountOp(segmentInfo, SegmentText(segmentInfo))
  /\ idx_selectedFile' = None
  /\ idx_audioUrl' = ""
  /\ idx_selectedDuration' = 0
  /\ idx_startTime' = 0
  /\ idx_endTime' = 0
  /\ idx_isUploading' = FALSE
  /\ WsLeave("index")
  /\ UNCHANGED <<user, token, isLoading, lsToken, lsUser, auth_stored, auth_pending,
                 auth_outcome, net_count, apiVars, resVars, lstVars, selVars, fuVars, rpAsync>>

\* handleUpload after the await, the request having failed: catch and finally
IdxUploadSettleError ==
  /\ idx_request # None
  /\ idx_notice' = "Upload failed. Please try again."
  /\ idx_isUploading' = FALSE
  /\ idx_request' = None
  /\ UNCHANGED <<idx_selectedFile, idx_audioUrl, idx_selectedDuration, idx_startTime,
                 idx_endTime, authVars, navVars, wsVars, exceptIdx>>

\* a session as rehydration leaves it: nobody, or a user with a stored token
SessionOf(u, tk) ==
  /\ user = u
  /\ token = (IF u = JNull THEN JNull ELSE Str(tk))
  /\ lsToken = (IF u = JNull THEN Absent ELSE Str(tk))
  /\ lsUser = (IF u = JNull THEN Absent ELSE Str(JsonStringify(u)))
  /\ auth_stored = [token |-> lsToken, user |-> lsUser]
  /\ isLoading = FALSE
  /\ auth_pending = {}
  /\ auth_outcome = NoOutcome
  /\ net_count = 0

InitIndex ==
  /\ \E u \in {JNull} \cup Users : SessionOf(u, "tokA")
  /\ route = "/"
  /\ InitApiIdle
  /\ InitResIdle
  /\ InitLstIdle
  /\ InitSelIdle
  /\ InitFileUploadIdle
  /\ InitNavIdle
  /\ InitWsIdle
  /\ InitIdxState
  /\ InitRpState
  /\ InitRecIdle

NextIndex ==
  \/ \E file \in Songs : IdxHandleFileSelect(file)
  \/ \E duration \in DurationChoices : IdxHandleDurationSelect(duration)
  \/ WsReady
  \/ \E newStart \in DragPositions : WsDrag(newStart)
  \/ IdxHandleUpload
  \/ \E id \in SegmentIds : IdxUploadSettleOk(id)
  \/ IdxUploadSettleError

SpecIndex == InitIndex /\ [][NextIndex]_vars

(***************************************************************************)
(* Record page                                                             *)
(***************************************************************************)
\* the pre-recorded files a user may pick in upload mode
Takes == {f \in Songs : f.duration \in {280, 450}}

\* ids the backend gives to recordings and to analyses
RecordingIds == {7}
AnalysisIds == {9}

\* the segment a visit of the Record page is about
EntryInfos == {[segmentId |-> 1, fileName |-> "song450", startTime |-> 100, endTime |-> 400]}

\* the account of the person at the page
Visitor == CHOOSE u \in Users : u.id = 1

\* a mirror JSON.parse throws on
CorruptMirror == Str("{\"segmentId\":")

\* the user can act on the page: it is shown, no redirect is due, no modal dialog is open
RpUsable == route = "/record" /\ rp_segmentId # 0 /\ ~rp_showLoginDialog

\* the page instance that started the awaited submission is still the mounted one
RpSubOnPage == route = "/record" /\ rp_sub # None /\ rp_sub.page = rp_firstInst

\* whether the page renders the WaveformPlayer of upload mode
RpShowsPlayer == rp_mode = "upload" /\ rp_uploadedFile # None /\ rp_audioUrl # ""

\* recordingAPI.uploadRecording(file, segmentId): the form it posts
UploadRecordingRequest(file, segmentId) ==
  [url |-> "/api/recording/upload", file |-> file, segment_id |-> ToString(segmentId),
   bearer |-> lsToken]

\* a slip in AnalyzeRecordingRequest: the two ids change places
AnalyzeRecordingRequestSwapped(segmentId, recordingId) ==
  [url |-> "/api/analyze", segment_id |-> recordingId, recording_id |-> segmentId,
   bearer |-> lsToken]

\* analysisAPI.analyzeRecording(segmentId, recordingId): the JSON it posts
AnalyzeRecordingRequest(segmentId, recordingId) ==
  [url |-> "/api/analyze", segment_id |-> segmentId, recording_id |-> recordingId,
   bearer |-> lsToken]

\* the template literal `/results/${analysisData.id}`
ResultsRoute(analysisId) == "/results/" \o ToString(analysisId)

\* a slip in RpNeedsLogin: the session is only asked for in record mode
RpNeedsLoginInRecordMode == user = JNull /\ rp_mode = "record"

\* if (!user) of handleSubmitAnalysis
RpNeedsLogin == user = JNull

\* the mode toggle: setMode; the recorder is rendered in record mode only, the player
\* in upload mode only
RpSetMode(m) ==
  /\ RpUsable
  /\ m # rp_mode
  /\ rp_mode' = m
  /\ rp_segmentId' = RpRenderSeg
  /\ IF m = "upload"
     THEN /\ RecUnmountOp
          /\ IF rp_uploadedFile # None /\ rp_audioUrl # ""
             THEN /\ WsCreate("record", TRUE, rp_selectedDuration, rp_uploadedFile.duration)
                  /\ UNCHANGED ws_reported
             ELSE UNCHANGED wsVars
     ELSE /\ rec_inst < MaxMounts
          /\ RecMountOp
          /\ WsLeave("record")
  /\ UNCHANGED <<rp_recordedBlob, rp_uploadedFile, rp_audioUrl, rp_selectedDuration,
                 rp_segmentStart, rp_segmentEnd, rp_isAnalyzing, rp_showLoginDialog,
                 rp_firstInst, rpAsync, authVars, navVars, idxVars, apiVars, resVars, lstVars, selVars, fuVars>>

\* handleFileSelect: a file accepted by the FileUpload of upload mode; the new object
\* URL makes the player load it
RpHandleFileSelect(file) ==
  /\ RpUsable
  /\ rp_mode = "upload"
  /\ rp_uploadedFile' = file
  /\ rp_audioUrl' = "blob:" \o file.name
  /\ rp_segmentStart' = 0
  /\ rp_segmentEnd' = rp_selectedDuration
  /\ rp_segmentId' = RpRenderSeg
  /\ WsCreate("record", TRUE, rp_selectedDuration, file.duration)
  /\ UNCHANGED <<ws_reported, rp_mode, rp_recordedBlob, rp_selectedDuration, rp_isAnalyzing,
                 rp_showLoginDialog, rp_firstInst, rpAsync, authVars, navVars, idxVars,
                 recVars, apiVars, resVars, lstVars, selVars, fuVars>>

\* handleDurationSelect of upload mode, and the player the next render re-creates
RpHandleDurationSelect(duration) ==
  /\ RpUsable
  /\ RpShowsPlayer
  /\ rp_selectedDuration' = duration
  /\ rp_segmentStart' = 0
  /\ rp_segmentEnd' = duration
  /\ rp_segmentId' = IF <<duration, 0, duration>> #
                          <<rp_selectedDuration, rp_segmentStart, rp_segmentEnd>>
                     THEN RpRenderSeg ELSE rp_segmentId
  /\ IF duration # rp_selectedDuration
     THEN /\ WsCreate("record", TRUE, duration, rp_uploadedFile.duration)
          /\ UNCHANGED ws_reported
     ELSE UNCHANGED wsVars
  /\ UNCHANGED <<rp_mode, rp_recordedBlob, rp_uploadedFile, rp_audioUrl, rp_isAnalyzing,
                 rp_showLoginDialog, rp_firstInst, rpAsync, authVars, navVars, idxVars,
                 recVars, apiVars, resVars, lstVars, selVars, fuVars>>

\* a slip in RpSubmitDisabled: the control is never disabled
RpSubmitAlwaysEnabled == FALSE

\* disabled={isAnalyzing} of the two Submit buttons
RpSubmitDisabled == rp_isAnalyzing

\* handleSubmitAnalysis up to `await recordingAPI.uploadRecording`, and the render it
\* causes: the cleanup of the effect on [isAnalyzing] runs with the isAnalyzing of the
\* render before.  The Submit control is rendered with a take (record mode) or with the
\* player (upload mode) and is disabled while isAnalyzing.
RpHandleSubmitAnalysis ==
  /\ RpUsable
  /\ \/ rp_mode = "record" /\ rp_recordedBlob # None
     \/ RpShowsPlayer
  /\ ~RpSubmitDisabled
  /\ rp_segmentId' = RpRenderSeg
  /\ IF RpNeedsLogin
     THEN /\ rp_showLoginDialog' = TRUE
          /\ UNCHANGED <<rp_isAnalyzing, rp_sub, rp_notice, net_count, lsSegment>>
     ELSE IF rp_mode = "record" /\ rp_recordedBlob = None
     THEN /\ rp_notice' = "Please record your singing first"
          /\ UNCHANGED <<rp_isAnalyzing, rp_sub, rp_showLoginDialog, net_count, lsSegment>>
     ELSE IF rp_mode = "upload" /\ rp_uploadedFile = None
     THEN /\ rp_notice' = "Please upload an audio file first"
          /\ UNCHANGED <<rp_isAnalyzing, rp_sub, rp_showLoginDialog, net_count, lsSegment>>
     ELSE /\ net_count < MaxCalls
          /\ rp_isAnalyzing' = TRUE
          /\ LET audioFile == IF rp_mode = "record"
                              THEN [name |-> "recording.webm", type |-> "audio/webm",
                                    body |-> rp_recordedBlob]
                              ELSE [name |-> rp_uploadedFile.name, type |-> "audio/mpeg",
                                    body |-> rp_uploadedFile]
             IN  rp_sub' = [stage |-> "upload", page |-> rp_firstInst, mode |-> rp_mode,
                            segmentId |-> rp_segmentId,
                            request |-> UploadRecordingRequest(audioFile, rp_segmentId)]
          /\ net_count' = net_count + 1
          /\ lsSegment' = RpCleanupStore(lsSegment)
          /\ UNCHANGED <<rp_showLoginDialog, rp_notice>>
  /\ UNCHANGED <<rp_mode, rp_recordedBlob, rp_uploadedFile, rp_audioUrl, rp_selectedDuration,
                 rp_segmentStart, rp_segmentEnd, rp_firstInst, user, token, isLoading,
                 lsToken, lsUser, route, auth_stored, auth_pending, auth_outcome, nav_state,
                 wsVars, idxVars, recVars, apiVars, resVars, lstVars, selVars, fuVars>>

\* handleSubmitAnalysis after the first await, the upload having returned recordingData:
\* the analyze request
RpUploadSettleOk(recordingId) ==
  /\ rp_sub # None
  /\ rp_sub.stage = "upload"
  /\ rp_sub' = [rp_sub EXCEPT !.stage = "analyze",
                  !.request = AnalyzeRecordingRequest(ToString(rp_sub.segmentId),
                                                      ToString(recordingId))]
  /\ net_count' = net_count + 1
  /\ UNCHANGED <<rpPage, rp_notice, user, token, isLoading, lsToken, lsUser, route,
                 auth_stored, auth_pending, auth_outcome, navVars, wsVars, idxVars, recVars,
                 apiVars, resVars, lstVars, selVars, fuVars>>

\* handleSubmitAnalysis after the second await, the analysis having returned analysisData:
\* the mirror is removed and the router goes to the results
RpAnalyzeSettleOk(analysisId) ==
  /\ rp_sub # None
  /\ rp_sub.stage = "analyze"
  /\ rp_sub' = None
  /\ rp_notice' = "Analysis complete!"
  /\ lsSegment' = Absent
  /\ NavigateOp(ResultsRoute(analysisId), None, Absent)
  /\ UNCHANGED <<authSession, idxAsync, apiVars, resVars, lstVars, selVars, fuVars>>

\* handleSubmitAnalysis after an await that threw: catch, then finally on the page
\* instance that started it
RpSubmissionFails ==
  /\ rp_sub # None
  /\ rp_sub' = None
  /\ rp_notice' = "Failed to analyze recording"
  /\ IF RpSubOnPage
     THEN /\ rp_isAnalyzing' = FALSE
          /\ rp_segmentId' = IF rp_isAnalyzing THEN RpRenderSeg ELSE rp_segmentId
     ELSE UNCHANGED <<rp_isAnalyzing, rp_segmentId>>
  /\ UNCHANGED <<rp_mode, rp_recordedBlob, rp_uploadedFile, rp_audioUrl, rp_selectedDuration,
                 rp_segmentStart, rp_segmentEnd, rp_showLoginDialog, rp_firstInst, authVars,
                 navVars, wsVars, idxVars, recVars, apiVars, resVars, lstVars, selVars, fuVars>>

\* the effect on [segmentId, navigate]: no segment id, so a notice and navigate('/')
RpRedirectEffect ==
  /\ route = "/record"
  /\ rp_segmentId = 0
  /\ rp_notice' = "No segment information found. Please upload a song first."
  /\ NavigateOp("/", None, lsSegment)
  /\ lsSegment' = StoreAfterLeaving(lsSegment)
  /\ UNCHANGED <<rp_sub, authSession, idxAsync, apiVars, resVars, lstVars, selVars, fuVars>>

\* the Login and Sign Up buttons of the dialog
RpDialogNavigate(to) ==
  /\ route = "/record"
  /\ rp_showLoginDialog
  /\ NavigateOp(to, None, lsSegment)
  /\ lsSegment' = StoreAfterLeaving(lsSegment)
  /\ UNCHANGED <<rpAsync, authSession, idxAsync, apiVars, resVars, lstVars, selVars, fuVars>>

\* the dialog is dismissed: onOpenChange(false)
RpDialogClose ==
  /\ route = "/record"
  /\ rp_showLoginDialog
  /\ rp_showLoginDialog' = FALSE
  /\ rp_segmentId' = RpRenderSeg
  /\ UNCHANGED <<rp_mode, rp_recordedBlob, rp_uploadedFile, rp_audioUrl, rp_selectedDuration,
                 rp_segmentStart, rp_segmentEnd, rp_isAnalyzing, rp_firstInst, rpAsync,
                 authVars, navVars, wsVars, idxVars, recVars, apiVars, resVars, lstVars, selVars, fuVars>>

InitRecord ==
  /\ \E u \in {JNull, Visitor} : SessionOf(u, "tokA")
  /\ route = "/record"
  /\ \E info \in EntryInfos :
        \/ nav_state = info /\ lsSegment = SegmentText(info)
        \/ nav_state = None /\ lsSegment \in {SegmentText(info), Absent, CorruptMirror}
  /\ rp_mode = "record"
  /\ rp_recordedBlob = None
  /\ rp_uploadedFile = None
  /\ rp_audioUrl = ""
  /\ rp_selectedDuration = 300
  /\ rp_segmentStart = 0
  /\ rp_segmentEnd = 300
  /\ rp_isAnalyzing = FALSE
  /\ rp_showLoginDialog = FALSE
  /\ rp_sub = None
  /\ rp_notice = ""
  /\ rp_firstInst = 1
  /\ rp_segmentId = SegmentIdOf(nav_state, lsSegment)
  /\ rec_mounted = TRUE
  /\ rec_inst = 1
  /\ InitRecState
  /\ rec_chunks = [i \in 1..MaxMounts |-> <<>>]
  /\ rec_pending = [i \in 1..MaxMounts |-> 0]
  /\ rec_recorders = <<>>
  /\ rec_timers = {}
  /\ rec_delivered = <<>>
  /\ rec_notice = ""
  /\ InitApiIdle
  /\ InitResIdle
  /\ InitLstIdle
  /\ InitSelIdle
  /\ InitFileUploadIdle
  /\ InitWsIdle
  /\ InitIdxState

\* the effect on [segmentId, navigate] has nothing to do: React runs a pending effect
\* before it handles the next click
RpEffectsSettled == ~(route = "/record" /\ rp_segmentId = 0)

\* the page is followed through the first take of a visit; further takes and
\* overlapping starts are followed in SpecRecorder
RpFirstTake == rec_recorders = <<>> /\ RecPendingTotal = 0

\* what the user does with the recorder and the player of the page
RpWidgetAction ==
  /\ RpUsable
  /\ \/ RpFirstTake /\ RecStartRecording
     \/ RecStopRecording
     \/ RecPlayRecording
     \/ RecResetRecording
     \/ \E newStart \in DragPositions : WsDrag(newStart)

NextRecord ==
  \/ \E m \in {"record", "upload"} : RpSetMode(m)
  \/ \E file \in Takes : RpHandleFileSelect(file)
  \/ \E duration \in DurationChoices : RpHandleDurationSelect(duration)
  \/ RpHandleSubmitAnalysis
  \/ \E recordingId \in RecordingIds : RpUploadSettleOk(recordingId)
  \/ \E analysisId \in AnalysisIds : RpAnalyzeSettleOk(analysisId)
  \/ RpSubmissionFails
  \/ RpRedirectEffect
  \/ \E to \in {"/login", "/register"} : RpDialogNavigate(to)
  \/ RpDialogClose
  \/ RpWidgetAction
  \/ \E i \in 1..MaxMounts : RecStartGranted(i)
  \/ \E i \in 1..MaxMounts : RecStartDenied(i)
  \/ \E t \in 1..MaxTakes : RecTick(t)
  \/ \E r \in 1..MaxTakes, size \in ChunkSizes : RecDataAvailable(r, size)
  \/ \E r \in 1..MaxTakes : RecOnStop(r)
  \/ RecAudioEnded
  \/ WsReady
  \/ LoginCall
  \/ \E req \in auth_pending : SessionSettleOk(req, Str("tokA"), Visitor)
  \/ \E req \in auth_pending : SessionSettleError(req)
  \/ \E to \in {"/"} : RpEffectsSettled /\ FollowLink(to)

SpecRecord ==
  /\ InitRecord
  /\ [][NextRecord]_vars
  /\ WF_vars(RpRedirectEffect)
  /\ WF_vars(RecPermission)
  /\ \A r \in 1..MaxTakes : WF_vars(RecStopEvents(r))

\* one visit from the upload of a song to the results of an analysis: the Index page,
\* then the Record page it navigates to, for a logged-in user, one song and one take
SubmitSong == CHOOSE f \in Songs : f.duration = 450

InitSubmit ==
  /\ SessionOf(Visitor, "tokA")
  /\ route = "/"
  /\ InitApiIdle
  /\ InitResIdle
  /\ InitLstIdle
  /\ InitSelIdle
  /\ InitFileUploadIdle
  /\ InitNavIdle
  /\ InitWsIdle
  /\ InitIdxState
  /\ InitRpState
  /\ InitRecIdle

NextSubmit ==
  \/ \E file \in {SubmitSong} : IdxHandleFileSelect(file)
  \/ \E duration \in {300, 600} : IdxHandleDurationSelect(duration)
  \/ WsReady
  \/ \E newStart \in DragPositions : WsDrag(newStart)
  \/ IdxHandleUpload
  \/ \E id \in {1} : IdxUploadSettleOk(id)
  \/ IdxUploadSettleError
  \/ \E m \in {"record", "upload"} : RpSetMode(m)
  \/ \E file \in Takes : RpHandleFileSelect(file)
  \/ RpHandleSubmitAnalysis
  \/ \E recordingId \in RecordingIds : RpUploadSettleOk(recordingId)
  \/ \E analysisId \in AnalysisIds : RpAnalyzeSettleOk(analysisId)
  \/ RpSubmissionFails
  \/ RpUsable /\ RpFirstTake /\ RecStartRecording
  \/ RpUsable /\ RecStopRecording
  \/ \E i \in 1..MaxMounts : RecStartGranted(i)
  \/ \E r \in 1..MaxTakes, size \in ChunkSizes : RecDataAvailable(r, size)
  \/ \E r \in 1..MaxTakes : RecOnStop(r)

SpecSubmit == InitSubmit /\ [][NextSubmit]_vars

\* the same visit with the ways a pending request ends taken as fair, started on the
\* Index page or on a Record page opened from the mirror alone (no navigation state)
IdxSettles ==
  \/ \E id \in {1} : IdxUploadSettleOk(id)
  \/ IdxUploadSettleError

RpSettles ==
  \/ \E recordingId \in RecordingIds : RpUploadSettleOk(recordingId)
  \/ \E analysisId \in AnalysisIds : RpAnalyzeSettleOk(analysisId)
  \/ RpSubmissionFails

InitSettle ==
  \/ InitSubmit
  \/ /\ InitRecord
     /\ user = Visitor
     /\ nav_state = None
     /\ lsSegment.t = "json"

NextSettle ==
  \/ NextSubmit
  \/ RpRedirectEffect

SpecSettle ==
  /\ InitSettle
  /\ [][NextSettle]_vars
  /\ WF_vars(IdxSettles)
  /\ WF_vars(RpSettles)
  /\ WF_vars(RpRedirectEffect)

(***************************************************************************)
(* Results page: playback of the original segment and of the recording     *)
(***************************************************************************)
\* the attempt the route /results/:attemptId names
ResAttempt == CHOOSE id \in AnalysisIds : TRUE

\* a slip in ResPauseAt: the element is left as it is
ResPauseAtForgotten(audios, a) == audios

\* audio?.pause() on the element a state variable holds (0: null); pausing an element
\* that is not playing changes nothing
ResPauseAt(audios, a) ==
  IF a = 0 THEN audios
  ELSE [audios EXCEPT ![a].state = IF @ = "playing" THEN "paused" ELSE @]

\* the cleanup of the effect on [segmentAudio, recordingAudio], with the elements the
\* render that registered it held
ResCleanup(audios) == ResPauseAt(ResPauseAt(audios, res_segmentAudio), res_recordingAudio)

\* the play buttons are on the page: not loading, results loaded
ResShown == res_mounted /\ ~res_isLoading /\ res_results

\* fetchResults after resultsAPI.getResults: setResults(data)
ResResultsLoaded ==
  /\ res_mounted
  /\ res_isLoading
  /\ ~res_results
  /\ res_results' = TRUE
  /\ UNCHANGED <<res_mounted, res_isLoading, res_segment, res_recording, res_playingSegment,
                 res_playingRecording, res_segmentAudio, res_recordingAudio, res_audios,
                 res_notice, route, nav_state, exceptRes>>

\* fetchResults after the Promise.all: setSegment, setRecording, then finally
ResDetailsLoaded ==
  /\ res_mounted
  /\ res_isLoading
  /\ res_results
  /\ res_segment' = TRUE
  /\ res_recording' = TRUE
  /\ res_isLoading' = FALSE
  /\ UNCHANGED <<res_mounted, res_results, res_playingSegment, res_playingRecording,
                 res_segmentAudio, res_recordingAudio, res_audios, res_notice, route,
                 nav_state, exceptRes>>

\* fetchResults when one of its requests fails: catch, then finally
ResFetchFails ==
  /\ res_mounted
  /\ res_isLoading
  /\ res_notice' = "Failed to load results"
  /\ res_isLoading' = FALSE
  /\ UNCHANGED <<res_mounted, res_results, res_segment, res_recording, res_playingSegment,
                 res_playingRecording, res_segmentAudio, res_recordingAudio, res_audios,
                 route, nav_state, exceptRes>>

\* toggleSegmentPlay, and the effect cleanup the change of segmentAudio causes; the
\* button is disabled without segment
ResToggleSegmentPlay ==
  /\ ResShown
  /\ res_segment
  /\ IF res_playingSegment
     THEN /\ res_audios' = ResPauseAt(res_audios, res_segmentAudio)
          /\ res_playingSegment' = FALSE
          /\ UNCHANGED <<res_playingRecording, res_segmentAudio>>
     ELSE /\ Len(res_audios) < MaxAudios
          /\ LET stopped == IF res_playingRecording
                            THEN ResPauseAt(res_audios, res_recordingAudio)
                            ELSE res_audios
             IN  res_audios' = Append(ResCleanup(stopped),
                                      [kind |-> "segment", state |-> "playing"])
          /\ res_playingRecording' = FALSE
          /\ res_segmentAudio' = Len(res_audios) + 1
          /\ res_playingSegment' = TRUE
  /\ UNCHANGED <<res_mounted, res_isLoading, res_results, res_segment, res_recording,
                 res_recordingAudio, res_notice, route, nav_state, exceptRes>>

\* toggleRecordingPlay, and the effect cleanup the change of recordingAudio causes; the
\* button is disabled without recording
ResToggleRecordingPlay ==
  /\ ResShown
  /\ res_recording
  /\ IF res_playingRecording
     THEN /\ res_audios' = ResPauseAt(res_audios, res_recordingAudio)
          /\ res_playingRecording' = FALSE
          /\ UNCHANGED <<res_playingSegment, res_recordingAudio>>
     ELSE /\ Len(res_audios) < MaxAudios
          /\ LET stopped == IF res_playingSegment
                            THEN ResPauseAt(res_audios, res_segmentAudio)
                            ELSE res_audios
             IN  res_audios' = Append(ResCleanup(stopped),
                                      [kind |-> "recording", state |-> "playing"])
          /\ res_playingSegment' = FALSE
          /\ res_recordingAudio' = Len(res_audios) + 1
          /\ res_playingRecording' = TRUE
  /\ UNCHANGED <<res_mounted, res_isLoading, res_results, res_segment, res_recording,
                 res_segmentAudio, res_notice, route, nav_state, exceptRes>>

\* audio.onended of element a: playback reached the end
ResAudioEnded(a) ==
  /\ a \in 1..Len(res_audios)
  /\ res_audios[a].state = "playing"
  /\ res_audios' = [res_audios EXCEPT ![a].state = "ended"]
  /\ IF res_mounted /\ res_audios[a].kind = "segment"
     THEN res_playingSegment' = FALSE /\ UNCHANGED res_playingRecording
     ELSE IF res_mounted /\ res_audios[a].kind = "recording"
     THEN res_playingRecording' = FALSE /\ UNCHANGED res_playingSegment
     ELSE UNCHANGED <<res_playingSegment, res_playingRecording>>
  /\ UNCHANGED <<res_mounted, res_isLoading, res_results, res_segment, res_recording,
                 res_segmentAudio, res_recordingAudio, res_notice, route, nav_state,
                 exceptRes>>

\* the page is left (navigate('/') of its button, or a link): the effect cleanup runs
\* and the state of the page is gone
ResLeave ==
  /\ res_mounted
  /\ res_mounted' = FALSE
  /\ res_audios' = ResCleanup(res_audios)
  /\ res_isLoading' = TRUE
  /\ res_results' = FALSE
  /\ res_segment' = FALSE
  /\ res_recording' = FALSE
  /\ res_playingSegment' = FALSE
  /\ res_playingRecording' = FALSE
  /\ res_segmentAudio' = 0
  /\ res_recordingAudio' = 0
  /\ NavigateOp("/", None, lsSegment)
  /\ UNCHANGED <<res_notice, authSession, lsSegment, idxAsync, rpAsync, apiVars, lstVars,
                 selVars, fuVars>>

InitResults ==
  /\ SessionOf(Visitor, "tokA")
  /\ route = ResultsRoute(ResAttempt)
  /\ res_mounted = TRUE
  /\ InitResState
  /\ res_audios = <<>>
  /\ res_notice = ""
  /\ InitLstIdle
  /\ InitSelIdle
  /\ InitApiIdle
  /\ InitFileUploadIdle
  /\ InitNavIdle
  /\ InitWsIdle
  /\ InitIdxState
  /\ InitRpState
  /\ InitRecIdle

NextResults ==
  \/ ResResultsLoaded
  \/ ResDetailsLoaded
  \/ ResFetchFails
  \/ ResToggleSegmentPlay
  \/ ResToggleRecordingPlay
  \/ \E a \in 1..MaxAudios : ResAudioEnded(a)
  \/ ResLeave

SpecResults == InitResults /\ [][NextResults]_vars

(***************************************************************************)
(* C1: every invocation of Index.handleUpload with a file and a target     *)
(* duration selected calls uploadAPI.uploadAndProcess exactly when          *)
(* | |endTime - startTime| - selectedDuration | is at most 0.1 s (one tenth);*)
(* otherwise it makes no network call, leaves isUploading false and raises *)
(* the error notice that carries the actual duration to one decimal, e.g.  *)
(* "28.0s" for 28 s against a target of 30.                                *)
(***************************************************************************)
C1_Actual == IF idx_endTime >= idx_startTime THEN idx_endTime - idx_startTime
             ELSE idx_startTime - idx_endTime

C1_Delta == IF C1_Actual >= idx_selectedDuration THEN C1_Actual - idx_selectedDuration
            ELSE idx_selectedDuration - C1_Actual

C1_UploadIffValid ==
  [][IdxHandleUpload =>
       /\ idx_selectedFile # None /\ idx_selectedDuration \in {150, 300, 600}
       /\ (C1_Delta <= 1) <=> (net_count' = net_count + 1)
       /\ (C1_Delta <= 1) =>
            /\ idx_request' # None
            /\ idx_request'.file = idx_selectedFile
            /\ idx_request'.start_time = idx_startTime
            /\ idx_request'.end_time = idx_endTime
            /\ idx_isUploading'
       /\ (C1_Delta > 1) =>
            /\ net_count' = net_count
            /\ idx_request' = None
            /\ ~idx_isUploading'
            /\ idx_notice' = "Please ensure the segment is exactly "
                                \o ToString(idx_selectedDuration \div 10)
                                \o " seconds (current: " \o ToString(C1_Actual \div 10)
                                \o "." \o ToString(C1_Actual % 10) \o "s)"
       /\ (C1_Actual = 280 /\ idx_selectedDuration = 300) =>
            idx_notice' = "Please ensure the segment is exactly 30 seconds (current: 28.0s)"
       /\ (C1_Actual = 300 /\ idx_selectedDuration = 300) => idx_request' # None
    ]_vars

\* start 10, end 40 against a target of 30 is being uploaded, after a 45 s selection against
\* a target of 60 was refused
C1_Witness ==
  /\ idx_request # None
  /\ idx_request.start_time = 100
  /\ idx_request.end_time = 400
  /\ idx_selectedDuration = 300
  /\ idx_isUploading
  /\ idx_notice = "Please ensure the segment is exactly 60 seconds (current: 45.0s)"

(***************************************************************************)
(* C2: on the Record page, every invocation of handleSubmitAnalysis while  *)
(* the session user is null issues no request to /api/recording/upload or  *)
(* /api/analyze and leaves isAnalyzing false; all it does is open the      *)
(* login/register dialog.  The submission is not resumed after a later     *)
(* login: an upload request is only ever issued by an invocation made with *)
(* a user, an analyze request only by the continuation of such an          *)
(* invocation, and the step that completes a login issues neither.         *)
(***************************************************************************)
C2_AllButDialog ==
  <<apiVars, resVars, lstVars, selVars, fuVars, authVars, navVars, wsVars, idxVars, recVars, rpAsync, rp_mode,
    rp_recordedBlob, rp_uploadedFile, rp_audioUrl, rp_selectedDuration, rp_segmentStart,
    rp_segmentEnd, rp_isAnalyzing, rp_firstInst, rp_segmentId>>

C2_UnauthenticatedSubmit ==
  /\ [][(RpHandleSubmitAnalysis /\ user = JNull) =>
          /\ rp_showLoginDialog'
          /\ ~rp_isAnalyzing'
          /\ rp_sub' = None
          /\ net_count' = net_count
          /\ UNCHANGED C2_AllButDialog]_vars
  /\ [][(rp_sub' # rp_sub /\ rp_sub' # None) =>
          \/ /\ rp_sub'.request.url = "/api/recording/upload"
             /\ RpHandleSubmitAnalysis
             /\ user # JNull
          \/ /\ rp_sub'.request.url = "/api/analyze"
             /\ rp_sub # None
             /\ rp_sub.request.url = "/api/recording/upload"]_vars
  /\ [][(user = JNull /\ user' # JNull) =>
          /\ rp_sub' = rp_sub
          /\ net_count' = net_count
          /\ route' = "/"
          /\ ~rp_isAnalyzing']_vars

\* the visitor was sent to the dialog, went to the login page and logged in: the login
\* request is the only request there has been
C2_Witness ==
  /\ user # JNull
  /\ auth_outcome = [op |-> "login", result |-> "ok"]
  /\ route = "/"
  /\ net_count = 1
  /\ rp_sub = None
  /\ ~rp_isAnalyzing

(***************************************************************************)
(* C3: startup rehydration.  When localStorage holds a token and a user    *)
(* entry that parses as JSON, the session in memory gets that token and    *)
(* that user, storage is left as it is and no request is made.  When it    *)
(* holds a token and a user entry that does not parse, both entries are    *)
(* removed and the session stays unauthenticated.  (An entry that is       *)
(* absent or empty is not looked at.)  Whatever storage holds, isLoading   *)
(* ends false.                                                             *)
(***************************************************************************)
RehydrationStep == isLoading /\ ~isLoading'

C3_Rehydration ==
  /\ [][RehydrationStep =>
          /\ net_count' = net_count
          /\ auth_pending' = auth_pending
          /\ (Truthy(lsToken) /\ Truthy(lsUser) /\ JsonParses(lsUser.v)) =>
                /\ token' = lsToken
                /\ user' = JsonParse(lsUser.v)
                /\ lsToken' = lsToken
                /\ lsUser' = lsUser
          /\ (Truthy(lsToken) /\ Truthy(lsUser) /\ ~JsonParses(lsUser.v)) =>
                /\ lsToken' = Absent
                /\ lsUser' = Absent
                /\ user' = JNull
                /\ token' = JNull]_vars
  /\ (isLoading ~> ~isLoading)

\* the corrupt case happened: the effect read a token and an unparseable user entry
C3_Witness ==
  /\ ~isLoading
  /\ auth_stored.token = Str("tokA")
  /\ Truthy(auth_stored.user)
  /\ ~JsonParses(auth_stored.user.v)
  /\ lsToken = Absent
  /\ lsUser = Absent
  /\ user = JNull
  /\ token = JNull
  /\ net_count = 0

(***************************************************************************)
(* C4: for every non-OK response apiRequest throws exactly one Error whose *)
(* message is, in this order of precedence: `detail` when it is a string;  *)
(* '<last element of loc>: <msg>' of the first entry when `detail` is a    *)
(* non-empty list; the `error` field; the `message` field; and otherwise   *)
(* 'API request failed: <status> <statusText>', which is also the message  *)
(* when the body is absent or is not JSON.  A field counts as given when   *)
(* it holds a non-empty string; an entry that gives no loc or no msg is    *)
(* reported with the words 'field' and 'Validation error' in their place.  *)
(***************************************************************************)
Given(f) == f.t = "str" /\ f.v # ""

ClaimedField(e) ==
  IF e.loc.t = "list" /\ e.loc.v # <<>> THEN e.loc.v[Len(e.loc.v)] ELSE "field"

ClaimedMsg(e) == IF Given(e.msg) THEN e.msg.v ELSE "Validation error"

ClaimedFallback(resp) ==
  "API request failed: " \o ToString(resp.status) \o " " \o resp.statusText

ClaimedMessage(resp) ==
  LET b == resp.body IN
  CASE b.t # "object" -> ClaimedFallback(resp)
    [] b.t = "object" /\ b.detail.t = "str" -> b.detail.v
    [] b.t = "object" /\ b.detail.t = "list" /\ b.detail.v # <<>> ->
         ClaimedField(b.detail.v[1]) \o ": " \o ClaimedMsg(b.detail.v[1])
    [] OTHER -> IF Given(b.error) THEN b.error.v
                ELSE IF Given(b.message) THEN b.message.v
                ELSE ClaimedFallback(resp)

C5_OversizeRejectedWithMessage ==
  fu_offered.via \in {"drop", "input"} =>
     /\ (fu_offered.size > fu_maxSize => fu_outcome = "alert")
     /\ (fu_offered.size = fu_maxSize /\ StartsWith(fu_offered.type, "audio/")
           => fu_outcome = "onFileSelect")

(***************************************************************************)
(* C6: every file offered by drag-and-drop or by the file input whose      *)
(* declared type is not in the accepted audio set is rejected with a       *)
(* message shown to the user, and onFileSelect is not invoked.             *)
(***************************************************************************)
\* a type matches a pattern of the accept prop: the pattern itself, or 'audio/*'
MatchesPattern(type, pattern) ==
  IF pattern = "audio/*" THEN StartsWith(type, "audio/") ELSE type = pattern

InAcceptedSet(type) == \E i \in 1..Len(fu_accept) : MatchesPattern(type, fu_accept[i])

C6_WrongTypeRejectedWithMessage ==
  (fu_offered.via \in {"drop", "input"} /\ ~InAcceptedSet(fu_offered.type)) =>
     (fu_outcome # "onFileSelect" /\ fu_outcome = "alert")

(***************************************************************************)
(* C7: for every recording cycle of AudioRecorder (start with the          *)
(* microphone granted, any number of one-second ticks, then stop)          *)
(* onRecordingComplete is invoked exactly once, with the blob built from   *)
(* the accumulated chunks; every track of the microphone stream is         *)
(* stopped; the elapsed counter moves only by one per tick while recording *)
(* (so it equals the number of ticks) and no longer advances once the      *)
(* recording is stopped.                                                   *)
(***************************************************************************)
C7_Deliveries(r) == {k \in 1..Len(rec_delivered) : rec_delivered[k].from = r}

C7_RecordingCycle ==
  /\ [](\A r \in 1..Len(rec_recorders) :
          /\ Cardinality(C7_Deliveries(r)) <= 1
          /\ rec_recorders[r].state = "inactive" =>
               /\ Cardinality(C7_Deliveries(r)) = 1
               /\ ~rec_recorders[r].live)
  /\ [][\A r \in 1..Len(rec_recorders) :
          (rec_recorders[r].state # "inactive" /\ rec_recorders'[r].state = "inactive") =>
             /\ Len(rec_delivered') = Len(rec_delivered) + 1
             /\ rec_delivered'[Len(rec_delivered')] =
                  [from |-> r, blob |-> BlobOf(rec_chunks[rec_recorders[r].inst])]]_vars
  /\ [][rec_recordingTime' # rec_recordingTime =>
          \/ rec_recordingTime' = 0
          \/ rec_isRecording /\ rec_recordingTime' = rec_recordingTime + 1]_vars
  /\ []((rec_mounted /\ ~rec_isRecording /\ RecPendingTotal = 0) =>
          \A r \in 1..Len(rec_recorders) :
             rec_recorders[r].inst = rec_inst =>
                /\ rec_recorders[r].state # "recording"
                /\ r \notin rec_timers)
  /\ \A r \in 1..MaxTakes :
        [](r <= Len(rec_recorders) /\ rec_recorders[r].state = "stopping"
             => <>(r <= Len(rec_recorders) /\ rec_recorders[r].state = "inactive"))

(***************************************************************************)
(* C8: the currentSegment mirror is never removed while an analysis        *)
(* submission is in flight on the Record page (from handleSubmitAnalysis   *)
(* setting isAnalyzing until the analysis request settles); a step removes *)
(* it only when the analysis has completed successfully or when the user   *)
(* leaves the Record page with no analysis in flight.                      *)
(***************************************************************************)
C8_MirrorKeptInFlight ==
  [][(lsSegment # Absent /\ lsSegment' = Absent) =>
       \/ /\ rp_sub # None
          /\ rp_sub.stage = "analyze"
          /\ rp_sub' = None
          /\ rp_notice' = "Analysis complete!"
       \/ /\ route = "/record"
          /\ route' # "/record"
          /\ rp_sub = None
          /\ rp_sub' = None
          /\ ~rp_isAnalyzing]_vars

(***************************************************************************)
(* C9 as stated: when the player becomes ready with region selection       *)
(* enabled and a fixed duration requested, the seeded region starts at 0,  *)
(* its length equals the fixed duration, and that (start, end) pair is     *)
(* reported through onRegionUpdate at once; without a fixed duration the   *)
(* seeded length is min(60 s, total duration).                             *)
(***************************************************************************)
ReadyStep == ws_state = "loading" /\ ws_state' = "ready" /\ ws_enable

C9_SeedIsFixedDuration ==
  [][ReadyStep =>
       /\ ws_region' # None
       /\ ws_region'.start = 0
       /\ ws_region'.end - ws_region'.start =
            (IF ws_fixed # 0 THEN ws_fixed ELSE Min(600, ws_duration))
       /\ ws_reported' = Pair(ws_region'.start, ws_region'.end)]_vars

(***************************************************************************)
(* C9 as amended: the seeded region starts at 0 and its length is          *)
(* min(fixed duration, total duration) when a fixed duration is requested  *)
(* (the fixed duration itself whenever the audio is at least that long),   *)
(* and min(60 s, total duration) otherwise; the pair is reported through   *)
(* onRegionUpdate at once.                                                 *)
(***************************************************************************)
C9_SeedIsClampedDuration ==
  [][ReadyStep =>
       /\ ws_region' # None
       /\ ws_region'.start = 0
       /\ ws_region'.end - ws_region'.start =
            (IF ws_fixed # 0 THEN Min(ws_fixed, ws_duration) ELSE Min(600, ws_duration))
       /\ ws_reported' = Pair(ws_region'.start, ws_region'.end)]_vars

\* a 28 s file became ready with 30 s requested: the region seeded is 28 s long
C9_Witness ==
  /\ ws_state = "ready"
  /\ ws_fixed = 300
  /\ ws_duration = 280
  /\ ws_seed = Pair(0, 280)
  /\ ws_region = Region(0, 280, FALSE)
  /\ ws_reported = Pair(0, 280)

(***************************************************************************)
(* C10: with a fixed duration configured the region is created with        *)
(* resizing disabled, and through every sequence of drags the reported     *)
(* end - start stays equal to the length of the seeded region.             *)
(***************************************************************************)
C10_FixedLengthKept ==
  (ws_fixed # 0 /\ ws_region # None) =>
     /\ ~ws_region.resize
     /\ ws_reported # None
     /\ ws_reported.end - ws_reported.start = ws_seed.end - ws_seed.start
     /\ ws_reported = Pair(ws_region.start, ws_region.end)

\* a 15 s region was dragged to start at 30 s
C10_Witness ==
  /\ ws_fixed = 150
  /\ ws_seed = Pair(0, 150)
  /\ ws_region # None
  /\ ws_region.start = 300
  /\ ws_reported = Pair(300, 450)

(***************************************************************************)
(* C11: a submission request is issued only when end - start equals the    *)
(* chosen duration within 0.1 s; on the Record page in upload mode, every  *)
(* step that issues the request to /api/recording/upload is taken with     *)
(* segmentEnd - segmentStart within one tenth of selectedDuration.         *)
(***************************************************************************)
C11_RecordUploadWithinTolerance ==
  [][(/\ rp_sub' # rp_sub
      /\ rp_sub' # None
      /\ rp_sub'.request.url = "/api/recording/upload"
      /\ rp_sub'.mode = "upload") =>
        Abs((rp_segmentEnd - rp_segmentStart) - rp_selectedDuration) <= Tolerance]_vars

(***************************************************************************)
(* C12: within one Record submission the upload request comes first, the   *)
(* analyze request is issued only when the upload has returned and carries *)
(* the upload's segment id and the recording id returned, and the router   *)
(* goes to /results/{id} only when the analysis has returned, with the id  *)
(* returned; a failed upload issues no analyze request and a failure of    *)
(* either request causes no navigation.                                    *)
(***************************************************************************)
C12_SubmissionOrder ==
  /\ [][(rp_sub' # rp_sub /\ rp_sub' # None /\ rp_sub'.stage = "upload") =>
          /\ rp_sub = None
          /\ rp_sub'.request.url = "/api/recording/upload"
          /\ rp_sub'.request.segment_id = ToString(rp_segmentId)]_vars
  /\ [][(rp_sub' # rp_sub /\ rp_sub' # None /\ rp_sub'.stage = "analyze") =>
          /\ rp_sub # None
          /\ rp_sub.stage = "upload"
          /\ rp_sub'.request.url = "/api/analyze"
          /\ rp_sub'.request.segment_id = rp_sub.request.segment_id
          /\ \E recordingId \in RecordingIds :
                /\ RpUploadSettleOk(recordingId)
                /\ rp_sub'.request.recording_id = ToString(recordingId)]_vars
  /\ [][(route' # route /\ route' \in {ResultsRoute(id) : id \in AnalysisIds}) =>
          /\ rp_sub # None
          /\ rp_sub.stage = "analyze"
          /\ \E analysisId \in AnalysisIds :
                RpAnalyzeSettleOk(analysisId) /\ route' = ResultsRoute(analysisId)]_vars
  /\ [][RpSubmissionFails =>
          /\ rp_sub' = None
          /\ net_count' = net_count
          /\ route' = route]_vars

\* a submission went all the way: two requests, then the results of analysis 9
C12_Witness ==
  /\ route = "/results/9"
  /\ rp_notice = "Analysis complete!"
  /\ rp_sub = None
  /\ net_count = 2

(***************************************************************************)
(* C13: in upload mode the form posted to /api/recording/upload carries    *)
(* the chosen segmentStart and segmentEnd besides the file and segment_id; *)
(* in record mode it carries the file and segment_id only.                 *)
(***************************************************************************)
C13_FormFields(request) == DOMAIN request \ {"url", "bearer"}

C13_UploadCarriesOffsets ==
  [][(/\ rp_sub' # rp_sub
      /\ rp_sub' # None
      /\ rp_sub'.request.url = "/api/recording/upload") =>
        LET form == C13_FormFields(rp_sub'.request)
            extra == form \ {"file", "segment_id"}
        IN  /\ {"file", "segment_id"} \subseteq form
            /\ rp_sub'.mode = "record" => extra = {}
            /\ rp_sub'.mode = "upload" =>
                 \E a, b \in extra :
                    /\ a # b
                    /\ rp_sub'.request[a] = ToString(rp_segmentStart)
                    /\ rp_sub'.request[b] = ToString(rp_segmentEnd)]_vars

(***************************************************************************)
(* C14: switching the Record page between record mode and upload mode      *)
(* resets the mode-specific state (recorded blob, uploaded file and its    *)
(* object URL, segmentStart/segmentEnd) and leaves the segment identity    *)
(* (segmentId, fileName, startTime, endTime) as it was.                    *)
(***************************************************************************)
C14_ModeSwitchResets ==
  [][(rp_mode' # rp_mode /\ route = "/record" /\ route' = "/record") =>
       /\ rp_recordedBlob' = None
       /\ rp_uploadedFile' = None
       /\ rp_audioUrl' = ""
       /\ rp_segmentStart' = 0
       /\ rp_segmentEnd' \in {300, rp_selectedDuration}
       /\ UNCHANGED <<nav_state, lsSegment, rp_segmentId>>]_vars

C16_NoOrphanStream ==
  /\ \A r \in 1..Len(rec_recorders) :
        (rec_recorders[r].live /\ rec_recorders[r].state = "recording") =>
           /\ RecCurrent(rec_recorders[r].inst)
           /\ rec_isRecording
  /\ \A t \in rec_timers :
        /\ RecCurrent(rec_recorders[t].inst)
        /\ rec_isRecording

(***************************************************************************)
(* C17: in every reachable state of AudioRecorder, isRecording and         *)
(* isPlaying are never both true; recording is not started while a take    *)
(* exists or is playing, playback is not started while recording, the play *)
(* control toggles between playing and paused, and the natural end of      *)
(* playback sets isPlaying to false.                                       *)
(***************************************************************************)
C17_RecordingExcludesPlaying ==
  /\ [](~(rec_isRecording /\ rec_isPlaying))
  /\ [][(~rec_isRecording /\ rec_isRecording') =>
          rec_recordedBlob = None /\ ~rec_isPlaying]_vars
  /\ [][(~rec_isPlaying /\ rec_isPlaying') => ~rec_isRecording]_vars
  /\ [][RecPlayRecording => rec_isPlaying' = ~rec_isPlaying]_vars
  /\ [][RecAudioEnded => ~rec_isPlaying']_vars

(***************************************************************************)
(* C18: on the Results page playingSegment and playingRecording are never  *)
(* both true and at most one audio element plays; starting one playback    *)
(* pauses the element of the other; for every sequence of toggles and      *)
(* natural ends an element that plays is the one its state variable holds  *)
(* and its flag is true; once the page is unmounted no element plays.      *)
(***************************************************************************)
C18_Playing(kind) == {a \in 1..Len(res_audios) :
                        res_audios[a].kind = kind /\ res_audios[a].state = "playing"}

C18_OnePlayback ==
  /\ [](~(res_playingSegment /\ res_playingRecording))
  /\ [](Cardinality(C18_Playing("segment") \cup C18_Playing("recording")) <= 1)
  /\ [](\A a \in C18_Playing("segment") : res_playingSegment /\ res_segmentAudio = a)
  /\ [](\A a \in C18_Playing("recording") : res_playingRecording /\ res_recordingAudio = a)
  /\ [][(ResToggleSegmentPlay /\ res_playingRecording) =>
          res_audios'[res_recordingAudio].state = "paused" /\ ~res_playingRecording']_vars
  /\ [][(ResToggleRecordingPlay /\ res_playingSegment) =>
          res_audios'[res_segmentAudio].state = "paused" /\ ~res_playingSegment']_vars
  /\ [](~res_mounted => C18_Playing("segment") \cup C18_Playing("recording") = {})

\* the segment was played to its end, played again, and the recording was started over it
C18_Witness ==
  /\ res_mounted
  /\ res_audios = <<[kind |-> "segment", state |-> "ended"],
                    [kind |-> "segment", state |-> "paused"],
                    [kind |-> "recording", state |-> "playing"]>>
  /\ res_playingRecording
  /\ ~res_playingSegment

(***************************************************************************)
(* C19: logout ends with the in-memory user and token null and the         *)
(* local-storage keys `token` and `user` removed, whether the request to   *)
(* /api/auth/logout succeeded or failed; the request is issued while the   *)
(* stored token is still there, so it carries the token of the session.    *)
(***************************************************************************)
C19_Logout ==
  /\ [][(\E req \in auth_pending : LogoutSettle(req)) =>
          /\ user' = JNull
          /\ token' = JNull
          /\ lsToken' = Absent
          /\ lsUser' = Absent]_vars
  /\ [][LogoutCall =>
          /\ \E req \in auth_pending' \ auth_pending :
                /\ req.op = "logout"
                /\ Truthy(req.bearer)
                /\ req.bearer = token
          /\ UNCHANGED <<user, token, lsToken, lsUser>>]_vars
  /\ [](\A req \in auth_pending : req.op = "logout" => Truthy(req.bearer))

\* a session rehydrated from storage was logged out
C19_Witness ==
  /\ auth_outcome = [op |-> "logout", result |-> "ok"]
  /\ auth_stored.token = Str("tokA")
  /\ user = JNull
  /\ token = JNull
  /\ lsToken = Absent
  /\ lsUser = Absent
  /\ route = "/login"
  /\ net_count = 1

(***************************************************************************)
(* C20: login and register.  When the request fails, or its response lacks *)
(* access_token or user, the in-memory session and both local-storage keys *)
(* stay as they are, the route stays, and the error is rethrown to the     *)
(* caller; on success the in-memory token and user are those of the        *)
(* response, the stored token is the response's token and the stored user  *)
(* is the JSON text of the response's user.                                *)
(***************************************************************************)
C20_LoginRegister ==
  /\ [][\A req \in auth_pending, tk \in ResponseTokens, u \in ResponseUsers :
          SessionSettleOk(req, tk, u) =>
            IF tk # Absent /\ u # JNull
            THEN /\ token' = tk
                 /\ lsToken' = tk
                 /\ user' = u
                 /\ lsUser'.t = "str"
                 /\ JsonParses(lsUser'.v)
                 /\ JsonParse(lsUser'.v) = u
                 /\ auth_outcome' = [op |-> req.op, result |-> "ok"]
            ELSE /\ UNCHANGED <<user, token, lsToken, lsUser, route, nav_state>>
                 /\ auth_outcome' = [op |-> req.op, result |-> "rethrown"]]_vars
  /\ [][\A req \in auth_pending :
          SessionSettleError(req) =>
            /\ UNCHANGED <<user, token, lsToken, lsUser, route, nav_state>>
            /\ auth_outcome' = [op |-> req.op, result |-> "rethrown"]]_vars

\* a register call answered with bob's account replaced the stored session of ann
C20_Witness ==
  /\ auth_outcome = [op |-> "register", result |-> "ok"]
  /\ auth_stored.token = Str("tokA")
  /\ token = Str("tokB")
  /\ lsToken = Str("tokB")
  /\ user \in Users
  /\ user.username = "bob"
  /\ lsUser = Str(JsonStringify(user))
  /\ route = "/"

(***************************************************************************)
(* C21: when the Record page is entered with no segment id in the          *)
(* navigation state and the currentSegment mirror absent or corrupt, the   *)
(* page takes the segment as missing, shows the notice, goes to the home   *)
(* page and issues no request; the corrupt mirror is gone once the page is *)
(* left.                                                                   *)
(***************************************************************************)
C21_Missing == route = "/record" /\ rp_segmentId = 0 /\ rp_sub = None

C21_MissingSegment ==
  /\ []((/\ route = "/record"
         /\ nav_state = None
         /\ lsSegment.t # "json"
         /\ rp_sub = None
         /\ ~rp_isAnalyzing) => rp_segmentId = 0)
  /\ [][C21_Missing =>
          /\ net_count' = net_count
          /\ rp_sub' = None
          /\ route' # route =>
               /\ route' = "/"
               /\ rp_notice' = "No segment information found. Please upload a song first."
               /\ lsSegment' = Absent]_vars
  /\ (C21_Missing ~> (route = "/" /\ lsSegment = Absent))

\* the visitor was sent home with the notice, nothing was requested, no mirror is left
C21_Witness ==
  /\ route = "/"
  /\ rp_notice = "No segment information found. Please upload a song first."
  /\ lsSegment = Absent
  /\ nav_state = None
  /\ net_count = 0

(***************************************************************************)
(* C22: the recorder moves only from Idle to Recording (start, microphone  *)
(* granted), from Recording to Stopped with a blob (stop), and from        *)
(* Stopped to Idle (re-record); a denied or failed microphone request      *)
(* shows the failure notice and leaves the recorder Idle with no blob and  *)
(* no running timer; reset leaves no blob, elapsed time 0 and not playing. *)
(***************************************************************************)
\* Idle: the Start control; Recording: the Stop control; Stopped: the take's controls.
\* Between stop() and the recorder's stop event the component shows Idle again.
C22_Phase(recording, blob) ==
  IF recording THEN IF blob = None THEN "Recording" ELSE "RecordingOverTake"
  ELSE IF blob = None THEN "Idle" ELSE "Stopped"

C22_Now == C22_Phase(rec_isRecording, rec_recordedBlob)

C22_Next == C22_Phase(rec_isRecording', rec_recordedBlob')

C22_OwnTimers == {t \in rec_timers : rec_recorders[t].inst = rec_inst}

C22_RecorderStates ==
  /\ [][(rec_mounted /\ rec_mounted' /\ rec_inst' = rec_inst /\ C22_Next # C22_Now) =>
          \/ C22_Now = "Idle" /\ C22_Next = "Recording" /\ \E i \in 1..MaxMounts : RecStartGranted(i)
          \/ C22_Now = "Recording" /\ C22_Next = "Idle" /\ RecStopRecording
          \/ C22_Now = "Idle" /\ C22_Next = "Stopped" /\ \E r \in 1..MaxTakes : RecOnStop(r)
          \/ C22_Now = "Stopped" /\ C22_Next = "Idle" /\ RecResetRecording]_vars
  /\ [][\A i \in 1..MaxMounts : (RecStartDenied(i) /\ RecCurrent(i)) =>
          /\ rec_notice' = "Failed to access microphone"
          /\ C22_Next = "Idle"
          /\ C22_OwnTimers = {}]_vars
  /\ [][RecResetRecording =>
          /\ rec_recordedBlob' = None
          /\ rec_recordingTime' = 0
          /\ ~rec_isPlaying']_vars

(***************************************************************************)
(* C23: every submission that has started (Index.handleUpload,             *)
(* Record.handleSubmitAnalysis) ends with its busy flag (isUploading,      *)
(* isAnalyzing) false once the pending request settles, on success and on  *)
(* every failure; after a failure no request is issued on its own and the  *)
(* submit control is usable again.                                         *)
(***************************************************************************)
C23_SubmissionsEnd ==
  /\ (idx_request # None ~> (idx_request = None /\ ~idx_isUploading))
  /\ (rp_sub # None ~> (rp_sub = None /\ ~rp_isAnalyzing))
  /\ (idx_isUploading ~> ~idx_isUploading)
  /\ (rp_isAnalyzing ~> ~rp_isAnalyzing)
  /\ [][(idx_request # None /\ idx_request' = None) => ~idx_isUploading']_vars
  /\ [][(rp_sub # None /\ rp_sub' = None) => ~rp_isAnalyzing']_vars
  /\ [][(IdxUploadSettleError \/ RpSubmissionFails) => net_count' = net_count]_vars
  /\ [][(idx_request = None /\ rp_sub = None /\ net_count' # net_count) =>
          (IdxHandleUpload \/ RpHandleSubmitAnalysis)]_vars
  /\ [][IdxUploadSettleError => (route' = "/" /\ ~IdxUploadDisabled')]_vars
  /\ [][(RpSubmissionFails /\ RpSubOnPage) => (RpUsable' /\ ~RpSubmitDisabled')]_vars

(***************************************************************************)
(* C24: session consistency.  In every state after startup rehydration has *)
(* finished and while no login, register or logout call is in progress,    *)
(* the user in memory is non-null exactly when the token in memory is      *)
(* non-null, and exactly when both localStorage keys `token` and `user`    *)
(* are present, whatever storage held at startup (nothing, one key only,   *)
(* a user entry that does not parse, a user entry that parses to null) and *)
(* whatever login, register and logout calls did.                          *)
(***************************************************************************)
C24_SessionConsistent ==
  (~isLoading /\ auth_pending = {}) =>
     /\ (user # JNull) <=> (token # JNull)
     /\ (user # JNull) <=> (lsToken # Absent /\ lsUser # Absent)

(***************************************************************************)
(* C25: at the moment of every submission that carries a selection         *)
(* (Index.handleUpload issuing its request, Record.handleSubmitAnalysis in *)
(* upload mode issuing its request) the page's (start, end) equals the     *)
(* region the waveform widget shows and start < end, for every sequence of *)
(* file selections, duration clicks (the selected duration clicked again   *)
(* after a drag included) and region drags.                                *)
(***************************************************************************)
C25_Shown(start, end) ==
  /\ ws_region # None
  /\ start = ws_region.start
  /\ end = ws_region.end
  /\ start < end

C25_SelectionIsRegion ==
  [][/\ (~idx_isUploading /\ idx_isUploading') => C25_Shown(idx_startTime, idx_endTime)
     /\ (rp_sub = None /\ rp_sub' # None /\ rp_mode = "upload") =>
           C25_Shown(rp_segmentStart, rp_segmentEnd)]_vars

(***************************************************************************)
(* C26: on the Record page the page-level recordedBlob is non-null exactly *)
(* when the embedded recorder holds a take: after Re-record                *)
(* (resetRecording) the Submit control is no longer offered, and           *)
(* handleSubmitAnalysis cannot upload the discarded take until a new       *)
(* recording completes.                                                    *)
(***************************************************************************)
\* the Submit control of record mode: rendered while the page holds a blob
C26_SubmitOffered == route = "/record" /\ rp_mode = "record" /\ rp_recordedBlob # None

C26_BlobFollowsRecorder ==
  /\ []((route = "/record" /\ rec_mounted) =>
          ((rp_recordedBlob # None) <=> (rec_recordedBlob # None)))
  /\ [][(route = "/record" /\ RecResetRecording) => ~C26_SubmitOffered']_vars
  /\ [][(rp_sub = None /\ rp_sub' # None /\ rp_mode = "record") =>
          /\ rec_recordedBlob # None
          /\ rp_sub'.request.file.body = rec_recordedBlob]_vars

(***************************************************************************)
(* C27: overlapping starts of the recorder.  If startRecording is invoked  *)
(* again while an earlier invocation still awaits the microphone (the      *)
(* Start control stays available until permission resolves), at most one   *)
(* microphone stream and one elapsed-time interval are ever active, and    *)
(* after a single stopRecording no stream remains recording and the        *)
(* elapsed counter no longer advances.                                     *)
(***************************************************************************)
\* the recorders the mounted component instance has made
C27_Own == {r \in 1..Len(rec_recorders) : rec_recorders[r].inst = rec_inst}

C27_OneStreamOneInterval ==
  /\ [](rec_mounted =>
          /\ Cardinality({r \in C27_Own : rec_recorders[r].live}) <= 1
          /\ Cardinality(rec_timers \cap C27_Own) <= 1)
  /\ [][(RecStopRecording /\ RecPendingTotal = 0) =>
          /\ rec_timers' \cap C27_Own = {}
          /\ \A r \in C27_Own : rec_recorders'[r].state # "recording"]_vars
  /\ [][(rec_mounted /\ ~rec_isRecording /\ RecPendingTotal = 0) =>
          rec_recordingTime' \in {rec_recordingTime, 0}]_vars

(***************************************************************************)
(* History and MySegments: a list fetched on mount, with a delete control  *)
(* per item                                                                *)
(***************************************************************************)
\* the ids of the attempts / segments the backend holds when the page is opened
ListItems == {1, 2, 3}

\* the number of delete requests followed
MaxDeletes == 3

ListPages == {"history", "segments"}

\* attempts.filter(a => a.id !== id) / segments.filter(s => s.id !== segmentId):
\* `attempts` / `segments` is the list of the render whose handler was called
ListAfterDelete(request) == request.list \ {request.id}

RemoveAt(seq, k) == [j \in 1..(Len(seq) - 1) |-> IF j < k THEN seq[j] ELSE seq[j + 1]]

\* fetchAttempts / fetchSegments, the request having succeeded
LstFetchOk ==
  /\ lst_page \in ListPages
  /\ lst_isLoading
  /\ lst_items' = lst_server
  /\ lst_isLoading' = FALSE
  /\ UNCHANGED <<lst_page, lst_deleteId, lst_pending, lst_server, lst_calls, lst_notice,
                 exceptLst>>

\* fetchAttempts / fetchSegments, the request having failed
LstFetchFails ==
  /\ lst_page \in ListPages
  /\ lst_isLoading
  /\ lst_notice' = IF lst_page = "history" THEN "Failed to load history"
                   ELSE "Failed to load segments"
  /\ lst_isLoading' = FALSE
  /\ UNCHANGED <<lst_page, lst_items, lst_deleteId, lst_pending, lst_server, lst_calls,
                 exceptLst>>

\* History: the trash button of an attempt opens the confirmation dialog
HistAskDelete(id) ==
  /\ lst_page = "history"
  /\ ~lst_isLoading
  /\ id \in lst_items
  /\ lst_deleteId = 0
  /\ lst_deleteId' = id
  /\ UNCHANGED <<lst_page, lst_isLoading, lst_items, lst_pending, lst_server, lst_calls,
                 lst_notice, exceptLst>>

\* History: the dialog is dismissed: onOpenChange
HistDialogClose ==
  /\ lst_page = "history"
  /\ lst_deleteId # 0
  /\ lst_deleteId' = 0
  /\ UNCHANGED <<lst_page, lst_isLoading, lst_items, lst_pending, lst_server, lst_calls,
                 lst_notice, exceptLst>>

\* History: the Delete button of the dialog: handleDelete(deleteId) up to
\* `await attemptsAPI.deleteAttempt`, and the dialog closing on its action
HistHandleDelete ==
  /\ lst_page = "history"
  /\ lst_deleteId # 0
  /\ lst_calls < MaxDeletes
  /\ lst_pending' = Append(lst_pending, [id |-> lst_deleteId, list |-> lst_items])
  /\ lst_calls' = lst_calls + 1
  /\ lst_deleteId' = 0
  /\ UNCHANGED <<lst_page, lst_isLoading, lst_items, lst_server, lst_notice, exceptLst>>

\* MySegments: the Delete button of a segment's dialog: handleDeleteSegment(segment.id)
\* up to `await segmentsAPI.deleteSegment`; the trigger is disabled for deletingId
SegHandleDeleteSegment(id) ==
  /\ lst_page = "segments"
  /\ ~lst_isLoading
  /\ id \in lst_items
  /\ lst_deleteId # id
  /\ lst_calls < MaxDeletes
  /\ lst_deleteId' = id
  /\ lst_pending' = Append(lst_pending, [id |-> id, list |-> lst_items])
  /\ lst_calls' = lst_calls + 1
  /\ UNCHANGED <<lst_page, lst_isLoading, lst_items, lst_server, lst_notice, exceptLst>>

\* handleDelete / handleDeleteSegment after the await, the backend having deleted the item
LstDeleteSettleOk(k) ==
  /\ k \in 1..Len(lst_pending)
  /\ lst_pending[k].id \in lst_server
  /\ lst_server' = lst_server \ {lst_pending[k].id}
  /\ lst_items' = ListAfterDelete(lst_pending[k])
  /\ lst_notice' = IF lst_page = "history" THEN "Attempt deleted"
                   ELSE "Segment deleted successfully"
  /\ lst_deleteId' = 0
  /\ lst_pending' = RemoveAt(lst_pending, k)
  /\ UNCHANGED <<lst_page, lst_isLoading, lst_calls, exceptLst>>

\* handleDelete / handleDeleteSegment after the await, the request having failed
LstDeleteSettleError(k) ==
  /\ k \in 1..Len(lst_pending)
  /\ lst_notice' = IF lst_page = "history" THEN "Failed to delete attempt"
                   ELSE "Failed to delete segment"
  /\ lst_deleteId' = 0
  /\ lst_pending' = RemoveAt(lst_pending, k)
  /\ UNCHANGED <<lst_page, lst_isLoading, lst_items, lst_server, lst_calls, exceptLst>>

InitList ==
  /\ lst_page \in ListPages
  /\ lst_isLoading = TRUE
  /\ lst_items = {}
  /\ lst_deleteId = 0
  /\ lst_pending = <<>>
  /\ lst_server = ListItems
  /\ lst_calls = 0
  /\ lst_notice = ""
  /\ InitApiIdle
  /\ InitResIdle
  /\ InitSelIdle
  /\ InitFileUploadIdle
  /\ InitAuthIdle
  /\ InitNavIdle
  /\ InitWsIdle
  /\ InitIdxState
  /\ InitRpState
  /\ InitRecIdle

NextList ==
  \/ LstFetchOk
  \/ LstFetchFails
  \/ \E id \in ListItems : HistAskDelete(id)
  \/ HistDialogClose
  \/ HistHandleDelete
  \/ \E id \in ListItems : SegHandleDeleteSegment(id)
  \/ \E k \in 1..MaxDeletes : LstDeleteSettleOk(k)
  \/ \E k \in 1..MaxDeletes : LstDeleteSettleError(k)

SpecList == InitList /\ [][NextList]_vars

(***************************************************************************)
(* C28: in the History and MySegments lists, once a delete request for an  *)
(* item has succeeded the item never appears in the displayed list again   *)
(* (there is no refetch), for every interleaving of several delete         *)
(* requests in flight at the same time; a failed delete leaves the list    *)
(* unchanged.                                                              *)
(***************************************************************************)
C28_Deleted == ListItems \ lst_server

C28_DeletedStayGone ==
  /\ [](lst_items \cap C28_Deleted = {})
  /\ [][(\E k \in 1..MaxDeletes : LstDeleteSettleError(k)) => lst_items' = lst_items]_vars

(***************************************************************************)
(* SelectSegment page: a WaveformPlayer without fixedDuration              *)
(***************************************************************************)
\* lengths (tenths of a second) of the audio the page may load
SelAudioDurations == {450, 700, 1500, 2000}

\* where a resize may leave an edge of the region
SelEdges == DragPositions \cup SelAudioDurations \cup {600, 1000}

\* location.state of the page
SelEntry == [fileId |-> 1, fileName |-> "song450"]

\* the page is unmounted
SelUnmountOp ==
  /\ sel_fileId' = 0
  /\ sel_audioUrl' = ""
  /\ sel_startTime' = 0
  /\ sel_endTime' = 600

\* the effect on [fileId, navigate]: no fileId, so navigate('/'); otherwise the audio
\* url is set and the WaveformPlayer is rendered, its effect creating the widget
SelMountEffect ==
  /\ route = "/select-segment"
  /\ sel_audioUrl = ""
  /\ IF sel_fileId = 0
     THEN /\ route' = "/"
          /\ nav_state' = None
          /\ SelUnmountOp
          /\ UNCHANGED wsVars
     ELSE /\ sel_audioUrl' = "files/" \o ToString(sel_fileId)
          /\ \E duration \in SelAudioDurations : WsCreate("select", TRUE, 0, duration)
          /\ UNCHANGED <<sel_fileId, sel_startTime, sel_endTime, route, nav_state, ws_reported>>
  /\ UNCHANGED <<sel_notice, rpPage, recVars, exceptSel>>

\* handleRegionUpdate(start, end) and the render it causes.  handleRegionUpdate is a
\* new function on every render of the page and is a dependency of the WaveformPlayer
\* effect: when the state changes, the page renders, the effect's cleanup destroys the
\* widget and the effect creates a new one, which loads the audio again.  When both
\* values are the ones the state holds, React does not render and the widget stays.
SelHandleRegionUpdate(start, end, region, seed) ==
  /\ sel_startTime' = start
  /\ sel_endTime' = end
  /\ ws_reported' = Pair(start, end)
  /\ IF <<start, end>> # <<sel_startTime, sel_endTime>>
     THEN WsCreate("select", ws_enable, ws_fixed, ws_duration)
     ELSE /\ ws_state' = "ready"
          /\ ws_region' = region
          /\ ws_seed' = seed
          /\ UNCHANGED <<ws_host, ws_enable, ws_fixed, ws_duration>>
  /\ UNCHANGED <<sel_fileId, sel_audioUrl, sel_notice, route, nav_state, rpPage, recVars,
                 exceptSel>>

\* ws.on('ready') of the page's widget: add the default region and report it
SelWsReady ==
  /\ ws_host = "select"
  /\ ws_state = "loading"
  /\ LET defaultEnd == SeedEnd(ws_fixed, ws_duration) IN
     SelHandleRegionUpdate(0, defaultEnd, Region(0, defaultEnd, SeedResize(ws_fixed)),
                           Pair(0, defaultEnd))

\* the user drags the region of the page's widget and lets go
SelWsDrag(newStart) ==
  /\ ws_host = "select"
  /\ ws_state = "ready"
  /\ ws_region # None
  /\ LET len == ws_region.end - ws_region.start IN
     /\ newStart >= 0
     /\ newStart + len <= ws_duration
     /\ SelHandleRegionUpdate(newStart, newStart + len,
                              Region(newStart, newStart + len, ws_region.resize), ws_seed)

\* the user drags one edge of the region of the page's widget and lets go
SelWsResize(newStart, newEnd) ==
  /\ ws_host = "select"
  /\ ws_state = "ready"
  /\ ws_region # None
  /\ ws_region.resize
  /\ newStart = ws_region.start \/ newEnd = ws_region.end
  /\ 0 <= newStart /\ newStart <= newEnd /\ newEnd <= ws_duration
  /\ SelHandleRegionUpdate(newStart, newEnd, Region(newStart, newEnd, ws_region.resize),
                           ws_seed)

\* handleProcessSegment: the Continue button
SelHandleProcessSegment ==
  /\ route = "/select-segment"
  /\ sel_audioUrl # ""
  /\ LET duration == sel_endTime - sel_startTime IN
     IF duration < 300
     THEN /\ sel_notice' = "Segment must be at least 30 seconds long"
          /\ UNCHANGED <<selPage, route, nav_state, wsVars, rpPage, recVars>>
     ELSE IF duration > 1200
     THEN /\ sel_notice' = "Segment must be no longer than 2 minutes"
          /\ UNCHANGED <<selPage, route, nav_state, wsVars, rpPage, recVars>>
     ELSE LET st == [segmentId |-> sel_fileId, fileName |-> SelEntry.fileName,
                     startTime |-> sel_startTime, endTime |-> sel_endTime] IN
          /\ rec_inst < MaxMounts
          /\ sel_notice' = "Segment selected successfully!"
          /\ route' = "/record"
          /\ nav_state' = st
          /\ RpMountOp(st, lsSegment)
          /\ SelUnmountOp
          /\ WsLeave("select")
  /\ UNCHANGED exceptSel

InitSelect ==
  /\ SessionOf(Visitor, "tokA")
  /\ route = "/select-segment"
  /\ sel_fileId \in {0, SelEntry.fileId}
  /\ InitSelState
  /\ sel_notice = ""
  /\ InitApiIdle
  /\ InitResIdle
  /\ InitLstIdle
  /\ InitFileUploadIdle
  /\ InitNavIdle
  /\ InitWsIdle
  /\ InitIdxState
  /\ InitRpState
  /\ InitRecIdle

NextSelect ==
  \/ SelMountEffect
  \/ SelWsReady
  \/ \E newStart \in DragPositions : SelWsDrag(newStart)
  \/ \E newStart \in SelEdges, newEnd \in SelEdges : SelWsResize(newStart, newEnd)
  \/ SelHandleProcessSegment

SpecSelect == InitSelect /\ [][NextSelect]_vars

(***************************************************************************)
(* C29: on the SelectSegment page, after a manual drag or resize reports   *)
(* (start, end), the page keeps exactly that pair until the next user      *)
(* drag: the update does not cause the waveform widget to be destroyed and *)
(* re-created, and the selection is not overwritten by the default seeded  *)
(* interval.                                                               *)
(***************************************************************************)
C29_Manual ==
  \/ \E newStart \in DragPositions : SelWsDrag(newStart)
  \/ \E newStart \in SelEdges, newEnd \in SelEdges : SelWsResize(newStart, newEnd)

C29_ManualSelectionKept ==
  /\ [][C29_Manual =>
          /\ ws_state' = "ready"
          /\ ws_region' # None
          /\ <<sel_startTime', sel_endTime'>> = <<ws_region'.start, ws_region'.end>>]_vars
  /\ [][(SelWsReady /\ <<sel_startTime, sel_endTime>> # <<0, 600>>) =>
          <<sel_startTime', sel_endTime'>> = <<sel_startTime, sel_endTime>>]_vars

(***************************************************************************)
(* C30: the Index page never issues POST /api/upload-and-process while the *)
(* session is unauthenticated (user null, no stored token): handleUpload   *)
(* reaches uploadAPI.uploadAndProcess only with an authenticated session.  *)
(***************************************************************************)
C30_UploadNeedsSession ==
  [][(idx_request = None /\ idx_request' # None) =>
        /\ user # JNull
        /\ lsToken # Absent
        /\ idx_request'.bearer # Absent]_vars

====
